---- MODULE Spec2Model ----
(***************************************************************************)
(* A model of rsfq (alejandrogzi/rsfq): accession classification           *)
(* (utils.rs), the ENA metadata client (provs/ena.rs), the verified        *)
(* per-file downloader and the per-accession orchestration (core.rs), the  *)
(* SRA extraction pipeline (provs/sra.rs) and the bounded batch            *)
(* (core.rs, get_fastqs).                                                  *)
(*                                                                         *)
(* Text is modelled at character level: a string the code inspects         *)
(* (an accession, a file name) is a sequence of one-character strings;     *)
(* Str turns it into the string the code would hold.                       *)
(*                                                                         *)
(* A call to std::process::exit is the variable exited becoming TRUE:      *)
(* nothing of the process runs afterwards.                                 *)
(***************************************************************************)
EXTENDS Integers, Sequences, FiniteSets, TLC

VARIABLES
    pc,          \* position of the running call ("done" once the entry call returned)
    entry,       \* the function the behaviour calls first
    exited,      \* std::process::exit(1) was called
    accession,   \* validate_query / process_run: the accession argument (characters)
    query,       \* validate_query: the returned query string ("" before the call)
    max_attempts,   \* get_run_info, download: the max_attempts argument
    force,          \* download, download_run: the force argument
    layout,         \* download_fastq, download_run: the layout argument
    attempts,       \* get_run_info: the local attempts
    result,         \* get_run_info: the local result (a sequence of records)
    response,       \* get_ena_metadata: the response the last request got
    m_requests,     \* history: metadata requests sent by this call of get_run_info
    m_sleeps,       \* history: retry sleeps finished by this call of get_run_info
    m_failed,       \* history: responses so far that were no usable answer
    b_total,        \* get_fastqs: length of the accession list
    b_report,       \* get_fastqs: args.metadata || args.check_if_downloadable
    b_queued,       \* get_fastqs: accessions the stream has not yet turned into a job
    b_meta,         \* get_fastqs: jobs in flight that wait in get_run_info
    b_retrieve,     \* get_fastqs: jobs in flight that wait in a download or SRA step
    b_resolved,     \* get_fastqs: jobs whose process_run returned
    b_failed,       \* history: jobs that met a fatal condition
    ftp,            \* download: the ftp argument (characters)
    md5,            \* download: the md5 argument (characters)
    attempt,        \* download: the local attempt
    fastq,          \* download: the local fastq, as the file's name in outdir
    d_result,       \* download: what the call returned ("unset" before it returns)
    fs,             \* the files of outdir: name -> content
    d_calls,        \* history: calls of download so far
    d_forced,       \* history: a call of download so far was made with force
    d_transfers,    \* history: transfer processes started by this call
    d_md5s,         \* history: checksums computed by this call
    d_sleeps,       \* history: retry sleeps finished by this call
    d_mismatched,   \* history: transfers of this call that left a file with another checksum
    d_verified,     \* history: this call took the checksum-match branch
    d_fs0,          \* history: the files of outdir when this call began
    d_prev,         \* history: d_result and d_verified of the call before this one
    d_status,       \* core.rs 542: status, -1 outside the iteration that reads it
    metadata,       \* process_run: the metadata argument
    check_if_downloadable,   \* process_run: the check_if_downloadable argument
    provider,       \* process_run: the provider argument
    run,            \* process_run: the local run, the first record of data
    stdout,         \* the lines printed with println!
    warned,         \* core.rs 211: the warning about more than one run was logged
    f_run,          \* download_fastq: the run argument
    f_entries,      \* download_fastq: ftp_entries zipped with md5_entries
    f_index,        \* download_fastq: the pair the loop comes to next
    f_calls,        \* history: calls of download_fastq
    s_accession,    \* download_run: the accession argument
    s_tools,        \* the SRA tools that which() resolves
    dir,            \* outdir exists
    current_attempt,   \* run_with_retry: the local current_attempt
    s_tool,         \* run_with_retry: the tool argument
    s_raw,          \* compress_fastqs: the raw candidate pigz was started on
    produced,       \* compress_fastqs: the local produced
    s_result,       \* download_run: what the call returned
    s_invoked,      \* history: the tools started, in order
    s_sleeps,       \* history: retry sleeps finished by run_with_retry
    s_calls,        \* history: calls of download_run
    s_prev,         \* history: s_invoked of the call before this one
    s_status,       \* history: how the last run of a tool ended, "none" while one runs
    s_ok,           \* history: the tools whose run_with_retry returned Ok(()), in order
    j_accession,    \* the accessions of two jobs of one batch
    j_pc,           \* where each of the two jobs is
    j_dest,         \* the files of outdir each of the two jobs writes
    returned        \* <<v>> once the entry call, a function without effects, returned v

qvars == <<accession, query>>
mvars == <<attempts, result, response, m_requests, m_sleeps, m_failed>>
bvars == <<b_total, b_report, b_queued, b_meta, b_retrieve, b_resolved, b_failed>>
dargs == <<ftp, md5>>
dlocals == <<attempt, fastq, d_result, d_calls, d_forced, d_transfers, d_md5s, d_sleeps,
             d_mismatched, d_verified, d_fs0, d_prev,
             d_status>>
dvars == <<dargs, dlocals>>
avars == <<max_attempts, force, layout>>
pvars == <<metadata, check_if_downloadable, provider, run, stdout, warned>>
fqvars == <<f_run, f_entries, f_index, f_calls>>
svars == <<s_accession, s_tools, dir, current_attempt, s_tool, s_raw, produced,
           s_result, s_invoked, s_sleeps, s_status, s_ok,
          s_calls, s_prev>>
jvars == <<j_accession, j_pc, j_dest>>
vars == <<pc, entry, exited, avars, qvars, mvars, bvars, dvars, fs, pvars, fqvars, svars,
          jvars, returned>>

\* What the actions of one part leave alone in the other parts.
OtherThanQuery == <<mvars, bvars, dvars, fs, pvars, fqvars, svars, jvars, returned>>
OtherThanMeta == <<qvars, bvars, dvars, fs, pvars, fqvars, svars, jvars, returned>>
OtherThanBatch == <<avars, qvars, mvars, dvars, fs, pvars, fqvars, svars, jvars, returned>>
OtherThanDownload == <<qvars, mvars, bvars, pvars, fqvars, svars, jvars, returned>>
OtherThanFastq == <<qvars, mvars, bvars, dlocals, fs, pvars, svars, jvars, returned>>
OtherThanSra == <<qvars, mvars, bvars, dvars, pvars, fqvars, jvars, returned>>
OtherThanRun == <<qvars, mvars, bvars, dvars, fs, jvars, returned>>

(***************************************************************************)
(* Bounds of the model.                                                    *)
(***************************************************************************)
MaxDigits == 7      \* longest run of digits in a generated accession
MaxAttempts == 3    \* largest max_attempts argument (the CLI's default is 10)
MaxLines == 2       \* most data lines in a metadata response body
MaxBatch == 52      \* longest accession list given to get_fastqs
MaxCalls == 2       \* calls of download in a row on one destination
MaxSraAttempts == 2 \* largest attempts argument of download_run
MaxRunAttempts == 2 \* largest attempts argument of process_run
MaxFastqAttempts == 1   \* largest attempts argument of download_fastq
MaxSraCalls == 2    \* most calls of download_run in a row

(***************************************************************************)
(* Characters and strings.                                                 *)
(***************************************************************************)
Upper == {"A", "B", "C", "D", "E", "F", "G", "H", "I", "J", "K", "L", "M",
          "N", "O", "P", "Q", "R", "S", "T", "U", "V", "W", "X", "Y", "Z"}
Digit == {"0", "1", "2", "3", "4", "5", "6", "7", "8", "9"}

RECURSIVE Str(_)
Str(cs) == IF cs = <<>> THEN "" ELSE Head(cs) \o Str(Tail(cs))

Min(a, b) == IF a <= b THEN a ELSE b

(***************************************************************************)
(* utils.rs, lines 10-25: the four anchored patterns.  A pattern is a      *)
(* sequence of alternatives (the regex's top-level |); an alternative,     *)
(* anchored by ^ and $, is a sequence of items: a character class repeated *)
(* between min and max times (max = -1: unbounded).                        *)
(***************************************************************************)
One(c) == [cls |-> {c}, min |-> 1, max |-> 1]
Cls(s) == [cls |-> s, min |-> 1, max |-> 1]
Opt(s) == [cls |-> s, min |-> 0, max |-> 1]
AtLeast(s, n) == [cls |-> s, min |-> n, max |-> -1]

EDN == {"E", "D", "N"}
EDS == {"E", "D", "S"}

PROJECT_STUDY_RE ==
    << <<One("P"), One("R"), One("J"), Cls(EDN), Cls(Upper), AtLeast(Digit, 1)>>,
       <<Cls(EDS), One("R"), One("P"), AtLeast(Digit, 6)>> >>
SAMPLE_BIOSAMPLE_RE ==
    << <<One("S"), One("A"), One("M"), Cls(EDN), Opt(Upper), AtLeast(Digit, 1)>>,
       <<Cls(EDS), One("R"), One("S"), AtLeast(Digit, 6)>> >>
\* A variant of the experiment pattern whose third letter may be R as well.
EXPERIMENT_RE_or_run == << <<Cls(EDS), One("R"), Cls({"X", "R"}), AtLeast(Digit, 6)>> >>

EXPERIMENT_RE == << <<Cls(EDS), One("R"), One("X"), AtLeast(Digit, 6)>> >>
RUN_RE == << <<Cls(EDS), One("R"), One("R"), AtLeast(Digit, 6)>> >>

\* The number of consecutive characters of s, from position i on, that are in cls.
RECURSIVE RunLen(_, _, _)
RunLen(cls, s, i) ==
    IF i > Len(s) \/ s[i] \notin cls THEN 0 ELSE 1 + RunLen(cls, s, i + 1)

\* Whether the items match s from position i to its end (the $ anchor).
RECURSIVE MatchFrom(_, _, _)
MatchFrom(items, s, i) ==
    IF items = <<>> THEN i = Len(s) + 1
    ELSE LET it == Head(items)
             len == RunLen(it.cls, s, i)
             hi == IF it.max = -1 THEN len ELSE Min(len, it.max)
         IN  \E k \in it.min..hi : MatchFrom(Tail(items), s, i + k)

\* Regex::is_match for a pattern whose every alternative is anchored by ^ and $.
is_match(re, s) == \E a \in 1..Len(re) : MatchFrom(re[a], s, 1)

(***************************************************************************)
(* utils.rs, lines 47-71: validate_query.  exit |-> TRUE is the branch     *)
(* that logs the error and calls std::process::exit(1): no query is        *)
(* returned.                                                               *)
(***************************************************************************)
\* A variant whose sample branch was copied from the study branch and kept its fields.
validate_query_copied_branch(q) ==
    IF is_match(PROJECT_STUDY_RE, q)
    THEN [exit |-> FALSE,
          value |-> "(study_accession=" \o Str(q)
                    \o " OR secondary_study_accession=" \o Str(q) \o ")"]
    ELSE IF is_match(SAMPLE_BIOSAMPLE_RE, q)
    THEN [exit |-> FALSE,
          value |-> "(study_accession=" \o Str(q)
                    \o " OR secondary_study_accession=" \o Str(q) \o ")"]
    ELSE IF is_match(EXPERIMENT_RE, q)
    THEN [exit |-> FALSE, value |-> "experiment_accession=" \o Str(q)]
    ELSE IF is_match(RUN_RE, q)
    THEN [exit |-> FALSE, value |-> "run_accession=" \o Str(q)]
    ELSE [exit |-> TRUE, value |-> ""]

validate_query(q) ==
    IF is_match(PROJECT_STUDY_RE, q)
    THEN [exit |-> FALSE,
          value |-> "(study_accession=" \o Str(q)
                    \o " OR secondary_study_accession=" \o Str(q) \o ")"]
    ELSE IF is_match(SAMPLE_BIOSAMPLE_RE, q)
    THEN [exit |-> FALSE,
          value |-> "(sample_accession=" \o Str(q)
                    \o " OR secondary_sample_accession=" \o Str(q) \o ")"]
    ELSE IF is_match(EXPERIMENT_RE, q)
    THEN [exit |-> FALSE, value |-> "experiment_accession=" \o Str(q)]
    ELSE IF is_match(RUN_RE, q)
    THEN [exit |-> FALSE, value |-> "run_accession=" \o Str(q)]
    ELSE [exit |-> TRUE, value |-> ""]

(***************************************************************************)
(* The accessions the model calls validate_query with: a prefix, an        *)
(* infix, a run of digits and a tail, so that every pattern has members,   *)
(* near misses (too few digits, a wrong letter, trailing text) and the     *)
(* doc-test's PRJEB12345.                                                  *)
(***************************************************************************)
Prefixes ==
    { <<"P", "R", "J">>, <<"S", "A", "M">>, <<"E", "R", "P">>, <<"S", "R", "P">>,
      <<"D", "R", "S">>, <<"S", "R", "S">>, <<"E", "R", "X">>, <<"S", "R", "X">>,
      <<"E", "R", "R">>, <<"S", "R", "R">>, <<"D", "R", "R">>, <<"X", "R", "R">>,
      <<"s", "r", "r">>, <<"R", "R">>, <<>> }
Infixes == { <<>>, <<"E">>, <<"N">>, <<"E", "B">>, <<"D", "A">>, <<"X", "B">>,
             <<"E", "b">>, <<"E", "A", "B">> }
Digits(n) == [i \in 1..n |-> IF i % 2 = 1 THEN "1" ELSE "0"]
Tails == { <<>>, <<"A">>, <<"\n">>, <<" ">> }
DocTestAccession == <<"P", "R", "J", "E", "B", "1", "2", "3", "4", "5">>

Accessions ==
    { p \o m \o Digits(n) \o t :
        p \in Prefixes, m \in Infixes, n \in 0..MaxDigits, t \in Tails }
    \cup {DocTestAccession}

\* core.rs 182: process_run calls validate_query; also the entry of SpecQuery.
CallValidateQuery ==
    /\ pc = "validate_query"
    /\ ~exited
    /\ LET r == validate_query(accession)
       IN  /\ exited' = r.exit
           /\ query' = r.value
           /\ pc' = IF r.exit THEN "exit"
                    ELSE IF entry = "validate_query" THEN "done"
                    ELSE "get_run_info"
    /\ UNCHANGED <<entry, accession, avars, OtherThanQuery>>


(***************************************************************************)
(* provs/ena.rs: the metadata client.                                      *)
(*                                                                         *)
(* A response is what client.get(..).send() and resp.text() gave:          *)
(* kind "err" is a transport error, kind "http" carries the status and     *)
(* the body.  The body is the sequence text.lines() yields; a line is the  *)
(* sequence line.split('\t') yields, so the empty line is << <<>> >>.  A   *)
(* header field is a string, a data field a sequence of characters.        *)
(***************************************************************************)
NoResponse == [kind |-> "none"]
EmptyLine == << <<>> >>

RUN_ACCESSION == "run_accession"
FASTQ_FTP == "fastq_ftp"
FASTQ_MD5 == "fastq_md5"
LIBRARY_LAYOUT == "library_layout"
PAIRED == <<"P", "A", "I", "R", "E", "D">>
SINGLE == <<"S", "I", "N", "G", "L", "E">>
R1 == <<"_", "1", ".", "f", "a", "s", "t", "q", ".", "g", "z">>
R2 == <<"_", "2", ".", "f", "a", "s", "t", "q", ".", "g", "z">>
FASTQ_GZ == <<".", "f", "a", "s", "t", "q", ".", "g", "z">>
FQ_GZ == <<".", "f", "q", ".", "g", "z">>
SUBREADS == <<"s", "u", "b", "r", "e", "a", "d", "s">>
EXTENSIONS ==
    << FASTQ_GZ, FQ_GZ,
       <<"_">> \o SUBREADS \o FASTQ_GZ, <<"_">> \o SUBREADS \o FQ_GZ,
       <<".">> \o SUBREADS \o FASTQ_GZ, <<".">> \o SUBREADS \o FQ_GZ >>

\* StatusCode::is_success: 200..=299.
is_success(status) == 200 <= status /\ status <= 299

\* Iterator::collect into a HashMap: a later pair with the same key wins.
RECURSIVE Collect(_)
Collect(pairs) ==
    IF pairs = <<>> THEN [k \in {} |-> <<>>]
    ELSE LET m == Collect(SubSeq(pairs, 1, Len(pairs) - 1))
             last == pairs[Len(pairs)]
         IN  [k \in (DOMAIN m) \cup {last[1]} |-> IF k = last[1] THEN last[2] ELSE m[k]]

\* A variant of the record of a line that keeps the empty values.
ParseLine_keeps_empty(headers, line) ==
    LET zipped == [i \in 1..Min(Len(headers), Len(line)) |-> <<headers[i], line[i]>>]
    IN  Collect(zipped)

\* ena.rs 126-136: headers.iter().zip(line.split('\t')).filter_map(..).collect()
ParseLine(headers, line) ==
    LET zipped == [i \in 1..Min(Len(headers), Len(line)) |-> <<headers[i], line[i]>>]
    IN  Collect(SelectSeq(zipped, LAMBDA p : p[2] # <<>>))

\* ena.rs 123-138: the records of the non-empty lines after the header line.
ParseData(headers, lines) ==
    LET kept == SelectSeq(lines, LAMBDA l : l # EmptyLine)
    IN  [i \in 1..Len(kept) |-> ParseLine(headers, kept[i])]

Success(data) == [tag |-> "Success", data |-> data, status |-> 200]
Error(status) == [tag |-> "Error", data |-> <<>>, status |-> status]

\* A variant without the data.is_empty() test of ena.rs 140.
get_ena_metadata_no_empty_test(resp) ==
    IF resp.kind = "http" /\ is_success(resp.status)
    THEN IF resp.body # <<>>
         THEN Success(ParseData(Head(resp.body), Tail(resp.body)))
         ELSE Error(200)
    ELSE IF resp.kind = "http"
    THEN Error(resp.status)
    ELSE Error(500)

\* ena.rs 103-176: get_ena_metadata, as a function of the response.
get_ena_metadata(resp) ==
    IF resp.kind = "http" /\ is_success(resp.status)
    THEN IF resp.body # <<>>
         THEN LET data == ParseData(Head(resp.body), Tail(resp.body))
              IN  IF data = <<>> THEN Error(200) ELSE Success(data)
         ELSE Error(200)
    ELSE IF resp.kind = "http"
    THEN Error(resp.status)
    ELSE Error(500)

(***************************************************************************)
(* The responses the metadata provider gives in the model.                 *)
(***************************************************************************)
HeaderLines == { <<RUN_ACCESSION, FASTQ_FTP>>, <<FASTQ_FTP>>, <<"">> }
MetaDataLines ==
    { EmptyLine,                       \* ""
      << <<>>, <<>> >>,                \* a line of one tab
      << <<"R">>, <<"f">> >>,
      << <<"R">>, <<>> >>,             \* an empty fastq_ftp column
      << <<"Q">>, <<"g">>, <<"x">> >>  \* more columns than the header
    }
RECURSIVE SeqsUpTo(_, _)
SeqsUpTo(S, n) ==
    IF n = 0 THEN { <<>> }
    ELSE LET shorter == SeqsUpTo(S, n - 1)
         IN  shorter \cup { Append(s, x) : s \in shorter, x \in S }
MetaBodies ==
    { <<>> } \cup { <<h>> \o ls : h \in HeaderLines, ls \in SeqsUpTo(MetaDataLines, MaxLines) }
MetaResponses ==
    { [kind |-> "err"] }
    \cup { [kind |-> "http", status |-> st, body |-> <<>>] : st \in {204, 404, 500} }
    \cup { [kind |-> "http", status |-> st, body |-> b] : st \in {200}, b \in MetaBodies }

\* The responses to the request of process_run: a transport error, or a table
\* of run records: a SINGLE run, a PAIRED run, records that lack run_accession
\* or everything but it, a record whose file is not named after the run, two
\* records, or the header alone.
RunAcc == <<"S", "R", "R", "0", "0", "0", "0", "0", "1">>
RunHeader == <<RUN_ACCESSION, FASTQ_FTP, FASTQ_MD5, LIBRARY_LAYOUT>>
FtpDir == <<"h", "/", "v", "/">>
SingleLine ==
    <<RunAcc, FtpDir \o RunAcc \o FASTQ_GZ, <<"0", "a", "1", "b">>, SINGLE>>
PairedLine ==
    <<RunAcc, FtpDir \o RunAcc \o R1 \o <<";">> \o FtpDir \o RunAcc \o R2,
      <<"0", "a", "1", "b", ";", "f", "f", "0", "0">>, PAIRED>>
NoAccessionLine ==
    << <<>>, FtpDir \o RunAcc \o FASTQ_GZ, <<"0", "a", "1", "b">>, SINGLE>>
AccessionOnlyLine == <<RunAcc>>
OtherNameLine ==
    <<RunAcc, FtpDir \o <<"X">> \o FASTQ_GZ, <<"0", "a", "1", "b">>, SINGLE>>
RunBodies ==
    { <<RunHeader>>, <<RunHeader, SingleLine, PairedLine>> }
    \cup { <<RunHeader, l>> :
             l \in {SingleLine, PairedLine, NoAccessionLine, AccessionOnlyLine,
                    OtherNameLine} }
RunResponses ==
    { [kind |-> "err"] }
    \cup { [kind |-> "http", status |-> 200, body |-> b] : b \in RunBodies }

Responses(e) == IF e = "process_run" THEN RunResponses ELSE MetaResponses

(***************************************************************************)
(* ena.rs 38-77: get_run_info.  One action per stretch of code between two *)
(* awaits.                                                                 *)
(***************************************************************************)
MetaIdle ==
    /\ attempts = 0
    /\ result = <<>>
    /\ response = NoResponse
    /\ m_requests = 0
    /\ m_sleeps = 0
    /\ m_failed = 0

\* What the history counts as a failed attempt, told from the response alone: a
\* transport error, a status outside 2xx, or no non-empty line after the header.
FailedResponse(resp) ==
    \/ resp.kind = "err"
    \/ resp.kind = "http" /\ ~(200 <= resp.status /\ resp.status <= 299)
    \/ resp.kind = "http" /\ \A i \in 2..Len(resp.body) : resp.body[i] = EmptyLine

\* ena.rs 45-46: the loop test, and the request when it passes.
GetRunInfoLoop ==
    /\ pc = "get_run_info"
    /\ ~exited
    /\ IF max_attempts >= attempts
       THEN /\ pc' = "get_ena_metadata"
            /\ m_requests' = m_requests + 1
       ELSE /\ pc' = "get_run_info_end"
            /\ UNCHANGED m_requests
    /\ UNCHANGED <<entry, exited, avars, attempts, result, response, m_sleeps, m_failed,
                   OtherThanMeta>>

\* A variant whose Error arm goes back to the loop test without sleeping.
GetEnaMetadataReturn_no_sleep ==
    /\ pc = "get_ena_metadata"
    /\ ~exited
    /\ \E resp \in Responses(entry) :
        LET ena_data == get_ena_metadata(resp)
        IN  /\ response' = resp
            /\ m_failed' = IF FailedResponse(resp) THEN m_failed + 1 ELSE m_failed
            /\ IF ena_data.tag = "Success"
               THEN /\ result' = result \o ena_data.data
                    /\ pc' = "get_run_info_end"
                    /\ UNCHANGED attempts
               ELSE /\ attempts' = attempts + 1
                    /\ pc' = "get_run_info"
                    /\ UNCHANGED result
    /\ UNCHANGED <<entry, exited, avars, m_requests, m_sleeps, OtherThanMeta>>

\* A variant whose Success arm does not break out of the loop.
GetEnaMetadataReturn_no_break ==
    /\ pc = "get_ena_metadata"
    /\ ~exited
    /\ \E resp \in Responses(entry) :
        LET ena_data == get_ena_metadata(resp)
        IN  /\ response' = resp
            /\ m_failed' = IF FailedResponse(resp) THEN m_failed + 1 ELSE m_failed
            /\ IF ena_data.tag = "Success"
               THEN /\ result' = result \o ena_data.data
                    /\ pc' = "get_run_info"
                    /\ UNCHANGED attempts
               ELSE /\ attempts' = attempts + 1
                    /\ pc' = "get_run_info_sleep"
                    /\ UNCHANGED result
    /\ UNCHANGED <<entry, exited, avars, m_requests, m_sleeps, OtherThanMeta>>

\* A variant whose Error arm does not count the attempt.
GetEnaMetadataReturn_no_count ==
    /\ pc = "get_ena_metadata"
    /\ ~exited
    /\ \E resp \in Responses(entry) :
        LET ena_data == get_ena_metadata(resp)
        IN  /\ response' = resp
            /\ m_failed' = IF FailedResponse(resp) THEN m_failed + 1 ELSE m_failed
            /\ IF ena_data.tag = "Success"
               THEN /\ result' = result \o ena_data.data
                    /\ pc' = "get_run_info_end"
                    /\ UNCHANGED attempts
               ELSE /\ UNCHANGED attempts
                    /\ pc' = "get_run_info_sleep"
                    /\ UNCHANGED result
    /\ UNCHANGED <<entry, exited, avars, m_requests, m_sleeps, OtherThanMeta>>

\* ena.rs 46-63: the request returns; Success breaks, Error counts and sleeps.
GetEnaMetadataReturn ==
    /\ pc = "get_ena_metadata"
    /\ ~exited
    /\ \E resp \in Responses(entry) :
        LET ena_data == get_ena_metadata(resp)
        IN  /\ response' = resp
            /\ m_failed' = IF FailedResponse(resp) THEN m_failed + 1 ELSE m_failed
            /\ IF ena_data.tag = "Success"
               THEN /\ result' = result \o ena_data.data
                    /\ pc' = "get_run_info_end"
                    /\ UNCHANGED attempts
               ELSE /\ attempts' = attempts + 1
                    /\ pc' = "get_run_info_sleep"
                    /\ UNCHANGED result
    /\ UNCHANGED <<entry, exited, avars, m_requests, m_sleeps, OtherThanMeta>>

\* ena.rs 62: tokio::time::sleep returns.
GetRunInfoSleepReturn ==
    /\ pc = "get_run_info_sleep"
    /\ ~exited
    /\ m_sleeps' = m_sleeps + 1
    /\ pc' = "get_run_info"
    /\ UNCHANGED <<entry, exited, avars, attempts, result, response, m_requests, m_failed,
                   OtherThanMeta>>

\* ena.rs 67-76: an empty result ends the process, any other is returned.
GetRunInfoEnd ==
    /\ pc = "get_run_info_end"
    /\ ~exited
    /\ IF result = <<>>
       THEN /\ exited' = TRUE
            /\ pc' = "exit"
       ELSE /\ exited' = FALSE
            /\ pc' = IF entry = "get_run_info" THEN "done" ELSE "process_run_mode"
    /\ UNCHANGED <<entry, avars, mvars, OtherThanMeta>>

(***************************************************************************)
(* core.rs 493-628: download and md5sum.                                   *)
(*                                                                         *)
(* A file's content is one of Contents, and Digest gives its MD5 as        *)
(* format!("{:x}", ..) prints it: lower-case hexadecimal (cut to four      *)
(* characters).  The files of outdir are the function fs, from the file's  *)
(* name to its content.                                                    *)
(***************************************************************************)
Contents == {"A", "B"}
Digest(c) == IF c = "A" THEN <<"0", "a", "1", "b">> ELSE <<"f", "f", "0", "0">>

NoFiles == [n \in {} |-> "A"]
WriteFile(files, name, c) ==
    [n \in (DOMAIN files) \cup {name} |-> IF n = name THEN c ELSE files[n]]

\* str::split(sep): the pieces between the separators, empty pieces included.
RECURSIVE Split(_, _)
Split(s, sep) ==
    IF \A i \in 1..Len(s) : s[i] # sep THEN <<s>>
    ELSE LET i == CHOOSE k \in 1..Len(s) : s[k] = sep /\ \A j \in 1..(k - 1) : s[j] # sep
         IN  <<SubSeq(s, 1, i - 1)>> \o Split(SubSeq(s, i + 1, Len(s)), sep)

\* Path::new(s).file_name(): the last component, None when there is none or it
\* is "..".  Empty pieces and "." are no components.
file_name(s) ==
    LET comps == SelectSeq(Split(s, "/"), LAMBDA c : c # <<>> /\ c # <<".">>)
    IN  IF comps = <<>> \/ comps[Len(comps)] = <<".", ".">>
        THEN [some |-> FALSE, value |-> <<>>]
        ELSE [some |-> TRUE, value |-> comps[Len(comps)]]

\* What one run of the transfer process does: whether it could be started,
\* whether it ended with an exit code (not by a signal), the code, and what
\* it leaves at the destination.
TransferOutcomes ==
    { [spawned |-> FALSE, coded |-> FALSE, code |-> 0, writes |-> "keep"] }
    \cup { [spawned |-> TRUE, coded |-> FALSE, code |-> 0, writes |-> w] :
             w \in {"keep"} \cup Contents }
    \cup { [spawned |-> TRUE, coded |-> TRUE, code |-> c, writes |-> w] :
             c \in {0, 1}, w \in {"keep"} \cup Contents }

\* What md5sum meets: whether the file can be read, and the file of the same
\* name check_fq_path finds below the current directory when fastq is missing.
Md5Outcomes == [found : {"none"} \cup Contents, io_ok : BOOLEAN]

\* core.rs 604-628: md5sum.  kind "exit": check_fq_path found nothing and the
\* process ends; "none": the file could not be opened or read.
md5sum(files, name, mo) ==
    IF name \notin DOMAIN files /\ mo.found = "none"
    THEN [kind |-> "exit", value |-> <<>>]
    ELSE IF ~mo.io_ok
    THEN [kind |-> "none", value |-> <<>>]
    ELSE [kind |-> "some",
          value |-> Digest(IF name \in DOMAIN files THEN files[name] ELSE mo.found)]

\* char::to_ascii_lowercase on the letters of a hexadecimal string.
LowerChar(ch) ==
    CASE ch = "A" -> "a" [] ch = "B" -> "b" [] ch = "C" -> "c"
      [] ch = "D" -> "d" [] ch = "E" -> "e" [] ch = "F" -> "f" [] OTHER -> ch
Lower(s) == [i \in 1..Len(s) |-> LowerChar(s[i])]

DownloadIdle ==
    /\ ftp = <<>>
    /\ md5 = <<>>
    /\ attempt = 0
    /\ fastq = ""
    /\ d_result = "unset"
    /\ d_calls = 0
    /\ d_forced = FALSE
    /\ d_transfers = 0
    /\ d_md5s = 0
    /\ d_sleeps = 0
    /\ d_mismatched = 0
    /\ d_verified = FALSE
    /\ d_fs0 = NoFiles
    /\ d_prev = [result |-> "unset", verified |-> FALSE]
    /\ d_status = -1

\* A variant of the return that leaves the caller without a value.
DownloadReturns_without_value(value) ==
    /\ d_result' = "unset"
    /\ pc' = IF entry = "download" THEN "done" ELSE "download_fastq_next"

\* core.rs 530 and 578: the call returns.
DownloadReturns(value) ==
    /\ d_result' = value
    /\ pc' = IF entry = "download" THEN "done" ELSE "download_fastq_next"

\* The history of a call starts afresh when download is entered.
DownloadBegins ==
    /\ d_calls' = d_calls + 1
    /\ d_forced' = (d_forced \/ force)
    /\ d_prev' = [result |-> d_result, verified |-> d_verified]
    /\ d_fs0' = fs
    /\ d_transfers' = 0
    /\ d_md5s' = 0
    /\ d_sleeps' = 0
    /\ d_mismatched' = 0
    /\ d_verified' = FALSE
    /\ d_status' = -1

\* A variant of the entry without the early return of core.rs 530.
DownloadEnter_no_skip ==
    /\ pc = "download"
    /\ ~exited
    /\ LET name == file_name(ftp)
       IN  IF ~name.some
           THEN /\ exited' = TRUE
                /\ pc' = "exit"
                /\ fastq' = ""
                /\ d_result' = "unset"
           ELSE /\ fastq' = Str(name.value)
                /\ exited' = FALSE
                /\ pc' = "download_loop"
                /\ d_result' = "unset"
    /\ attempt' = 0
    /\ DownloadBegins
    /\ UNCHANGED <<entry, avars, ftp, md5, fs, OtherThanDownload>>

\* core.rs 502-532: the destination, and the skip of an existing file.
DownloadEnter ==
    /\ pc = "download"
    /\ ~exited
    /\ LET name == file_name(ftp)
       IN  IF ~name.some
           THEN /\ exited' = TRUE
                /\ pc' = "exit"
                /\ fastq' = ""
                /\ d_result' = "unset"
           ELSE /\ fastq' = Str(name.value)
                /\ exited' = FALSE
                /\ IF Str(name.value) \in DOMAIN fs /\ ~force
                   THEN DownloadReturns("None")
                   ELSE /\ pc' = "download_loop"
                        /\ d_result' = "unset"
    /\ attempt' = 0
    /\ DownloadBegins
    /\ UNCHANGED <<entry, avars, ftp, md5, fs, OtherThanDownload>>

\* A variant whose loop test is max_attempts > attempt.
DownloadLoop_strict ==
    /\ pc = "download_loop"
    /\ ~exited
    /\ IF max_attempts > attempt
       THEN /\ d_transfers' = d_transfers + 1
            /\ pc' = "download_output"
            /\ UNCHANGED d_result
       ELSE /\ DownloadReturns("Some")
            /\ UNCHANGED d_transfers
    /\ UNCHANGED <<entry, exited, avars, ftp, md5, attempt, fastq, fs, d_calls, d_forced, d_md5s,
                   d_sleeps, d_mismatched, d_verified, d_fs0, d_prev, d_status,
                   OtherThanDownload>>

\* core.rs 536-537: the loop test, and the transfer process when it passes.
DownloadLoop ==
    /\ pc = "download_loop"
    /\ ~exited
    /\ IF max_attempts >= attempt
       THEN /\ d_transfers' = d_transfers + 1
            /\ pc' = "download_output"
            /\ UNCHANGED d_result
       ELSE /\ DownloadReturns("Some")
            /\ UNCHANGED d_transfers
    /\ UNCHANGED <<entry, exited, avars, ftp, md5, attempt, fastq, fs, d_calls, d_forced, d_md5s,
                   d_sleeps, d_mismatched, d_verified, d_fs0, d_prev, d_status,
                   OtherThanDownload>>

\* A variant that computes and compares the checksum with force as without.
DownloadOutput_md5_despite_force ==
    /\ pc = "download_output"
    /\ ~exited
    /\ \E out \in TransferOutcomes, mo \in Md5Outcomes :
        LET after == IF out.writes = "keep" THEN fs ELSE WriteFile(fs, fastq, out.writes)
            fq_md5 == md5sum(after, fastq, mo)
        IN  /\ fs' = after
            /\ d_status' = IF out.spawned /\ out.coded THEN out.code ELSE d_status
            /\ d_mismatched' =
                 IF /\ out.spawned
                    /\ fastq \in DOMAIN after
                    /\ Digest(after[fastq]) # Lower(md5)
                 THEN d_mismatched + 1 ELSE d_mismatched
            /\ IF ~out.spawned \/ ~out.coded
               THEN \* core.rs 537-545
                    /\ exited' = TRUE
                    /\ pc' = "exit"
                    /\ UNCHANGED <<attempt, d_result, d_md5s, d_verified>>
               ELSE IF out.code # 0
               THEN \* core.rs 547-550
                    /\ attempt' = attempt + 1
                    /\ pc' = "download_sleep"
                    /\ UNCHANGED <<exited, d_result, d_md5s, d_verified>>
               ELSE IF fq_md5.kind # "some"
               THEN \* core.rs 556-559 and 606-609
                    /\ exited' = TRUE
                    /\ pc' = "exit"
                    /\ UNCHANGED <<attempt, d_result, d_md5s, d_verified>>
               ELSE IF fq_md5.value # md5
               THEN \* core.rs 561-569
                    /\ attempt' = attempt + 1
                    /\ pc' = "download_sleep"
                    /\ d_md5s' = d_md5s + 1
                    /\ UNCHANGED <<exited, d_result, d_verified>>
               ELSE \* core.rs 570-572 and 578
                    /\ DownloadReturns("Some")
                    /\ d_md5s' = d_md5s + 1
                    /\ d_verified' = TRUE
                    /\ UNCHANGED <<exited, attempt>>
    /\ UNCHANGED <<entry, avars, ftp, md5, fastq, d_calls, d_forced, d_transfers, d_sleeps, d_fs0,
                   d_prev, OtherThanDownload>>

\* core.rs 537-575: the transfer process is over.
DownloadOutput ==
    /\ pc = "download_output"
    /\ ~exited
    /\ \E out \in TransferOutcomes, mo \in Md5Outcomes :
        LET after == IF out.writes = "keep" THEN fs ELSE WriteFile(fs, fastq, out.writes)
            fq_md5 == md5sum(after, fastq, mo)
        IN  /\ fs' = after
            /\ d_status' = IF out.spawned /\ out.coded THEN out.code ELSE d_status
            /\ d_mismatched' =
                 IF /\ out.spawned
                    /\ fastq \in DOMAIN after
                    /\ Digest(after[fastq]) # Lower(md5)
                 THEN d_mismatched + 1 ELSE d_mismatched
            /\ IF ~out.spawned \/ ~out.coded
               THEN \* core.rs 537-545
                    /\ exited' = TRUE
                    /\ pc' = "exit"
                    /\ UNCHANGED <<attempt, d_result, d_md5s, d_verified>>
               ELSE IF out.code # 0
               THEN \* core.rs 547-550
                    /\ attempt' = attempt + 1
                    /\ pc' = "download_sleep"
                    /\ UNCHANGED <<exited, d_result, d_md5s, d_verified>>
               ELSE IF force
               THEN \* core.rs 552-554 and 578
                    /\ DownloadReturns("Some")
                    /\ UNCHANGED <<exited, attempt, d_md5s, d_verified>>
               ELSE IF fq_md5.kind # "some"
               THEN \* core.rs 556-559 and 606-609
                    /\ exited' = TRUE
                    /\ pc' = "exit"
                    /\ UNCHANGED <<attempt, d_result, d_md5s, d_verified>>
               ELSE IF fq_md5.value # md5
               THEN \* core.rs 561-569
                    /\ attempt' = attempt + 1
                    /\ pc' = "download_sleep"
                    /\ d_md5s' = d_md5s + 1
                    /\ UNCHANGED <<exited, d_result, d_verified>>
               ELSE \* core.rs 570-572 and 578
                    /\ DownloadReturns("Some")
                    /\ d_md5s' = d_md5s + 1
                    /\ d_verified' = TRUE
                    /\ UNCHANGED <<exited, attempt>>
    /\ UNCHANGED <<entry, avars, ftp, md5, fastq, d_calls, d_forced, d_transfers, d_sleeps, d_fs0,
                   d_prev, OtherThanDownload>>

\* core.rs 550 and 569: tokio::time::sleep returns.
DownloadSleepReturn ==
    /\ pc = "download_sleep"
    /\ ~exited
    /\ d_sleeps' = d_sleeps + 1
    /\ d_status' = -1
    /\ pc' = "download_loop"
    /\ UNCHANGED <<entry, exited, avars, ftp, md5, attempt, fastq, d_result, fs, d_calls, d_forced,
                   d_transfers, d_md5s, d_mismatched, d_verified, d_fs0, d_prev,
                   OtherThanDownload>>

\* The caller calls download again for the same file, with or without force.
DownloadAgain ==
    /\ entry = "download"
    /\ pc = "done"
    /\ ~exited
    /\ d_calls < MaxCalls
    /\ force' \in BOOLEAN
    /\ pc' = "download"
    /\ UNCHANGED <<entry, exited, max_attempts, layout, dvars, fs, OtherThanDownload>>

(***************************************************************************)
(* provs/sra.rs: the SRA extraction pipeline.                              *)
(*                                                                         *)
(* The paths download_run handles are the names of files of outdir, so the *)
(* files are those of fs; dir says whether outdir exists.  s_tools is the  *)
(* set of tools which() resolves.  A tool that runs does what it likes to  *)
(* the files it is responsible for (ToolEffects), whatever its status.     *)
(***************************************************************************)
PREFETCH == "prefetch"
FASTERQ_DUMP == "fasterq-dump"
PIGZ == "pigz"
SraTools == <<PREFETCH, FASTERQ_DUMP, PIGZ>>
Layouts == {"single", "paired", "global"}

\* Result<Vec<PathBuf>, SRAError>
NoSraResult == [tag |-> "unset", kind |-> "", tool |-> "", code |-> 0, paths |-> <<>>]
Ok(paths) == [tag |-> "Ok", kind |-> "", tool |-> "", code |-> 0, paths |-> paths]
SRAError(kind, tool, code) ==
    [tag |-> "Err", kind |-> kind, tool |-> tool, code |-> code, paths |-> <<>>]
MissingTool(tool) == SRAError("MissingTool", tool, 0)
CommandFailed(tool, code) == SRAError("CommandFailed", tool, code)
NotFound(tool) == SRAError("NotFound", tool, 0)
Io == SRAError("Io", "", 0)
NoFastqProduced == SRAError("NoFastqProduced", "", 0)
LayoutMismatch == SRAError("LayoutMismatch", "", 0)

\* A variant that does not look for pigz.
ensure_tools_without_pigz(tools) ==
    LET missing == SelectSeq(<<PREFETCH, FASTERQ_DUMP>>, LAMBDA t : t \notin tools)
    IN  IF missing = <<>> THEN [ok |-> TRUE, tool |-> ""]
        ELSE [ok |-> FALSE, tool |-> Head(missing)]

\* sra.rs 33-38: the first tool, in the order of the array, that is not found.
ensure_tools(tools) ==
    LET missing == SelectSeq(SraTools, LAMBDA t : t \notin tools)
    IN  IF missing = <<>> THEN [ok |-> TRUE, tool |-> ""]
        ELSE [ok |-> FALSE, tool |-> Head(missing)]

Range(s) == { s[i] : i \in 1..Len(s) }
RemoveFiles(files, names) == [n \in (DOMAIN files) \ names |-> files[n]]

gz_candidates(acc) == <<acc \o ".fastq.gz", acc \o "_1.fastq.gz", acc \o "_2.fastq.gz">>
raw_candidates(acc) == <<acc \o ".fastq", acc \o "_1.fastq", acc \o "_2.fastq">>
sra_path(acc) == acc \o ".sra"

\* Variant of layout_satisfied: one mate file is enough for Paired.
layout_satisfied_either_mate(l, files, acc) ==
    LET gz == gz_candidates(acc)
        has_single == gz[1] \in DOMAIN files
        has_paired == gz[2] \in DOMAIN files \/ gz[3] \in DOMAIN files
    IN  CASE l = "single" -> has_single
          [] l = "paired" -> has_paired
          [] OTHER -> has_single \/ has_paired

layout_satisfied(l, files, acc) ==
    LET gz == gz_candidates(acc)
        has_single == gz[1] \in DOMAIN files
        has_paired == gz[2] \in DOMAIN files /\ gz[3] \in DOMAIN files
    IN  CASE l = "single" -> has_single
          [] l = "paired" -> has_paired
          [] OTHER -> has_single \/ has_paired

existing_paths(files, paths) == SelectSeq(paths, LAMBDA p : p \in DOMAIN files)

\* A variant that gives the compression tool the caller's attempts.
run_with_retry_attempts_for_all(tool) == max_attempts

\* The attempts argument of run_with_retry: sra.rs 113, 131 and 202.
run_with_retry_attempts(tool) == IF tool = PIGZ THEN 1 ELSE max_attempts

\* What a run of a tool may do to the files: prefetch writes the .sra file,
\* fasterq-dump --split-3 writes raw FASTQ files, pigz replaces raw by raw.gz.
NoEffect == [writes |-> {}, removes |-> {}]
ToolEffects(tool, acc, raw) ==
    LET r == raw_candidates(acc)
    IN  IF tool = PREFETCH
        THEN {NoEffect, [writes |-> {sra_path(acc)}, removes |-> {}]}
        ELSE IF tool = FASTERQ_DUMP
        THEN { [writes |-> w, removes |-> {}] :
                 w \in { {}, {r[1]}, {r[2], r[3]}, {r[1], r[2], r[3]} } }
        ELSE {NoEffect, [writes |-> {raw \o ".gz"}, removes |-> {raw}]}
ApplyEffect(files, eff) ==
    [n \in ((DOMAIN files) \ eff.removes) \cup eff.writes |->
        IF n \in eff.writes THEN "A" ELSE files[n]]

\* ExitStatus of a tool: "io" is command.status() failing, "signal" no code.
ToolStatuses == {"io", "success", "3", "1", "signal"}

SraIdle ==
    /\ s_accession = ""
    /\ current_attempt = 0
    /\ s_tool = ""
    /\ s_raw = 1
    /\ produced = <<>>
    /\ s_result = NoSraResult
    /\ s_invoked = <<>>
    /\ s_sleeps = 0
    /\ s_status = "none"
    /\ s_ok = <<>>
    /\ s_calls = 0
    /\ s_prev = <<>>

\* sra.rs 248-258 called on its own: SpecLayout.
CallLayoutSatisfied ==
    /\ pc = "layout_satisfied"
    /\ ~exited
    /\ returned' = <<layout_satisfied(layout, fs, s_accession)>>
    /\ pc' = "done"
    /\ UNCHANGED <<entry, exited, avars, fs, svars, qvars, mvars, bvars, dvars, pvars, fqvars,
                   jvars>>

\* download_run returns.
SraReturns(res) ==
    /\ s_result' = res
    /\ pc' = IF entry = "download_run" THEN "done" ELSE "process_run_match"

\* A variant whose loop test is current_attempt <= attempts, as the loops of
\* get_run_info and download have it.
RunWithRetryLoop_inclusive(tool, ca) ==
    IF ca <= run_with_retry_attempts(tool)
    THEN /\ current_attempt' = ca + 1
         /\ s_tool' = tool
         /\ s_invoked' = Append(s_invoked, tool)
         /\ s_status' = "none"
         /\ pc' = "run_with_retry_status"
         /\ UNCHANGED s_result
    ELSE /\ SraReturns(CommandFailed(tool, 1))
         /\ UNCHANGED <<current_attempt, s_tool, s_invoked, s_status>>

\* sra.rs 369-373 and 393: the loop test of run_with_retry with
\* current_attempt = ca, and the start of the command when it passes.
RunWithRetryLoop(tool, ca) ==
    IF ca < run_with_retry_attempts(tool)
    THEN /\ current_attempt' = ca + 1
         /\ s_tool' = tool
         /\ s_invoked' = Append(s_invoked, tool)
         /\ s_status' = "none"
         /\ pc' = "run_with_retry_status"
         /\ UNCHANGED s_result
    ELSE /\ SraReturns(CommandFailed(tool, 1))
         /\ UNCHANGED <<current_attempt, s_tool, s_invoked, s_status>>

\* A variant of what follows the loop without the test of sra.rs 140-142.
CompressLoop_no_layout_test(files, i, prod, io_ok) ==
    LET raws == raw_candidates(s_accession)
        rest == { j \in i..3 : raws[j] \in DOMAIN files }
    IN  /\ produced' = prod
        /\ IF rest # {}
           THEN /\ s_raw' = CHOOSE j \in rest : \A k \in rest : j <= k
                /\ fs' = files
                /\ RunWithRetryLoop(PIGZ, 0)
           ELSE /\ UNCHANGED <<s_raw, current_attempt, s_tool, s_invoked>>
                /\ s_status' = "success"
                /\ IF prod = <<>>
                   THEN /\ fs' = files
                        /\ SraReturns(NoFastqProduced)
                   ELSE IF sra_path(s_accession) \in DOMAIN files /\ ~io_ok
                   THEN /\ fs' = files
                        /\ SraReturns(Io)
                   ELSE LET cleaned == RemoveFiles(files, {sra_path(s_accession)})
                        IN  /\ fs' = cleaned
                            /\ SraReturns(Ok(
                                  IF prod = <<>>
                                  THEN existing_paths(cleaned, gz_candidates(s_accession))
                                  ELSE prod))

\* A variant of what follows the loop without the removal of sra.rs 138.
CompressLoop_no_cleanup(files, i, prod, io_ok) ==
    LET raws == raw_candidates(s_accession)
        rest == { j \in i..3 : raws[j] \in DOMAIN files }
    IN  /\ produced' = prod
        /\ IF rest # {}
           THEN /\ s_raw' = CHOOSE j \in rest : \A k \in rest : j <= k
                /\ fs' = files
                /\ RunWithRetryLoop(PIGZ, 0)
           ELSE /\ UNCHANGED <<s_raw, current_attempt, s_tool, s_invoked>>
                /\ s_status' = "success"
                /\ IF prod = <<>>
                   THEN /\ fs' = files
                        /\ SraReturns(NoFastqProduced)
                   ELSE IF sra_path(s_accession) \in DOMAIN files /\ ~io_ok
                   THEN /\ fs' = files
                        /\ SraReturns(Io)
                   ELSE LET cleaned == files
                        IN  /\ fs' = cleaned
                            /\ IF ~layout_satisfied(layout, cleaned, s_accession)
                               THEN SraReturns(LayoutMismatch)
                               ELSE SraReturns(Ok(
                                      IF prod = <<>>
                                      THEN existing_paths(cleaned, gz_candidates(s_accession))
                                      ELSE prod))

\* sra.rs 187-216 and 138-148: the loop of compress_fastqs from candidate i on
\* with prod produced so far, and what follows the loop in download_run.
CompressLoop(files, i, prod, io_ok) ==
    LET raws == raw_candidates(s_accession)
        rest == { j \in i..3 : raws[j] \in DOMAIN files }
    IN  /\ produced' = prod
        /\ IF rest # {}
           THEN /\ s_raw' = CHOOSE j \in rest : \A k \in rest : j <= k
                /\ fs' = files
                /\ RunWithRetryLoop(PIGZ, 0)
           ELSE /\ UNCHANGED <<s_raw, current_attempt, s_tool, s_invoked>>
                /\ s_status' = "success"
                /\ IF prod = <<>>
                   THEN /\ fs' = files
                        /\ SraReturns(NoFastqProduced)
                   ELSE IF sra_path(s_accession) \in DOMAIN files /\ ~io_ok
                   THEN /\ fs' = files
                        /\ SraReturns(Io)
                   ELSE LET cleaned == RemoveFiles(files, {sra_path(s_accession)})
                        IN  /\ fs' = cleaned
                            /\ IF ~layout_satisfied(layout, cleaned, s_accession)
                               THEN SraReturns(LayoutMismatch)
                               ELSE SraReturns(Ok(
                                      IF prod = <<>>
                                      THEN existing_paths(cleaned, gz_candidates(s_accession))
                                      ELSE prod))

\* A variant without the early return of sra.rs 89-96.
DownloadRunEnter_no_skip ==
    /\ pc = "download_run"
    /\ ~exited
    /\ \E create_ok \in BOOLEAN, remove_ok \in BOOLEAN :
        LET tools == ensure_tools(s_tools)
            gz_paths == gz_candidates(s_accession)
        IN  IF ~tools.ok
            THEN /\ SraReturns(MissingTool(tools.tool))
                 /\ UNCHANGED <<fs, dir, current_attempt, s_tool, s_invoked, s_status>>
            ELSE IF ~dir /\ ~create_ok
            THEN /\ SraReturns(Io)
                 /\ UNCHANGED <<fs, dir, current_attempt, s_tool, s_invoked, s_status>>
            ELSE /\ dir' = TRUE
                 /\ IF force /\ Range(gz_paths) \cap DOMAIN fs # {} /\ ~remove_ok
                    THEN /\ SraReturns(Io)
                         /\ UNCHANGED <<fs, current_attempt, s_tool, s_invoked, s_status>>
                    ELSE /\ fs' = IF force THEN RemoveFiles(fs, Range(gz_paths)) ELSE fs
                         /\ RunWithRetryLoop(PREFETCH, 0)
    /\ s_calls' = s_calls + 1
    /\ UNCHANGED <<entry, exited, avars, s_accession, s_tools, s_raw, produced, s_sleeps,
                   s_ok, s_prev, OtherThanSra>>

\* sra.rs 84-117: download_run up to the first run of prefetch.
DownloadRunEnter ==
    /\ pc = "download_run"
    /\ ~exited
    /\ \E create_ok \in BOOLEAN, remove_ok \in BOOLEAN :
        LET tools == ensure_tools(s_tools)
            gz_paths == gz_candidates(s_accession)
        IN  IF ~tools.ok
            THEN /\ SraReturns(MissingTool(tools.tool))
                 /\ UNCHANGED <<fs, dir, current_attempt, s_tool, s_invoked, s_status>>
            ELSE IF ~dir /\ ~create_ok
            THEN /\ SraReturns(Io)
                 /\ UNCHANGED <<fs, dir, current_attempt, s_tool, s_invoked, s_status>>
            ELSE /\ dir' = TRUE
                 /\ IF ~force /\ layout_satisfied(layout, fs, s_accession)
                    THEN /\ SraReturns(Ok(existing_paths(fs, gz_paths)))
                         /\ UNCHANGED <<fs, current_attempt, s_tool, s_invoked, s_status>>
                    ELSE IF force /\ Range(gz_paths) \cap DOMAIN fs # {} /\ ~remove_ok
                    THEN /\ SraReturns(Io)
                         /\ UNCHANGED <<fs, current_attempt, s_tool, s_invoked, s_status>>
                    ELSE /\ fs' = IF force THEN RemoveFiles(fs, Range(gz_paths)) ELSE fs
                         /\ RunWithRetryLoop(PREFETCH, 0)
    /\ s_calls' = s_calls + 1
    /\ UNCHANGED <<entry, exited, avars, s_accession, s_tools, s_raw, produced, s_sleeps,
                   s_ok, s_prev, OtherThanSra>>

\* A variant without the arm Some(3) of sra.rs 382: code 3 is a code like any
\* other.
RunWithRetryStatus_retry_code_3 ==
    /\ pc = "run_with_retry_status"
    /\ ~exited
    /\ \E st \in (IF s_tool \in s_tools THEN ToolStatuses ELSE {"io"}),
          eff \in ToolEffects(s_tool, s_accession, raw_candidates(s_accession)[s_raw]),
          io_ok \in BOOLEAN :
        LET after == IF st = "io" THEN fs ELSE ApplyEffect(fs, eff)
        IN  /\ s_ok' = IF st = "success" THEN Append(s_ok, s_tool) ELSE s_ok
            /\ IF st = "success"
               THEN IF s_tool = PREFETCH
                    THEN /\ fs' = after
                         /\ RunWithRetryLoop(FASTERQ_DUMP, 0)
                         /\ UNCHANGED <<s_raw, produced>>
                    ELSE IF s_tool = FASTERQ_DUMP
                    THEN CompressLoop(after, 1, <<>>, io_ok)
                    ELSE CompressLoop(after, s_raw + 1,
                                      Append(produced,
                                             raw_candidates(s_accession)[s_raw] \o ".gz"),
                                      io_ok)
               ELSE /\ fs' = after
                    /\ s_status' = st
                    /\ UNCHANGED <<current_attempt, s_tool, s_invoked, s_raw, produced>>
                    /\ CASE st = "io" -> SraReturns(Io)
                         [] st = "signal" -> SraReturns(CommandFailed(s_tool, -1))
                         [] OTHER ->
                              IF current_attempt >= run_with_retry_attempts(s_tool)
                              THEN SraReturns(CommandFailed(s_tool, 1))
                              ELSE /\ pc' = "run_with_retry_sleep"
                                   /\ UNCHANGED s_result
    /\ UNCHANGED <<entry, exited, avars, s_accession, s_tools, dir, s_sleeps, s_calls, s_prev,
                   OtherThanSra>>

\* sra.rs 373-391, 119-148: the command of run_with_retry is over.
RunWithRetryStatus ==
    /\ pc = "run_with_retry_status"
    /\ ~exited
    /\ \E st \in (IF s_tool \in s_tools THEN ToolStatuses ELSE {"io"}),
          eff \in ToolEffects(s_tool, s_accession, raw_candidates(s_accession)[s_raw]),
          io_ok \in BOOLEAN :
        LET after == IF st = "io" THEN fs ELSE ApplyEffect(fs, eff)
        IN  /\ s_ok' = IF st = "success" THEN Append(s_ok, s_tool) ELSE s_ok
            /\ IF st = "success"
               THEN IF s_tool = PREFETCH
                    THEN /\ fs' = after
                         /\ RunWithRetryLoop(FASTERQ_DUMP, 0)
                         /\ UNCHANGED <<s_raw, produced>>
                    ELSE IF s_tool = FASTERQ_DUMP
                    THEN CompressLoop(after, 1, <<>>, io_ok)
                    ELSE CompressLoop(after, s_raw + 1,
                                      Append(produced,
                                             raw_candidates(s_accession)[s_raw] \o ".gz"),
                                      io_ok)
               ELSE /\ fs' = after
                    /\ s_status' = st
                    /\ UNCHANGED <<current_attempt, s_tool, s_invoked, s_raw, produced>>
                    /\ CASE st = "io" -> SraReturns(Io)
                         [] st = "3" -> SraReturns(NotFound(s_tool))
                         [] st = "signal" -> SraReturns(CommandFailed(s_tool, -1))
                         [] OTHER ->
                              IF current_attempt >= run_with_retry_attempts(s_tool)
                              THEN SraReturns(CommandFailed(s_tool, 1))
                              ELSE /\ pc' = "run_with_retry_sleep"
                                   /\ UNCHANGED s_result
    /\ UNCHANGED <<entry, exited, avars, s_accession, s_tools, dir, s_sleeps, s_calls, s_prev,
                   OtherThanSra>>

\* sra.rs 391 and 370-373: tokio::time::sleep returns, the loop goes on.
RunWithRetrySleepReturn ==
    /\ pc = "run_with_retry_sleep"
    /\ ~exited
    /\ s_sleeps' = s_sleeps + 1
    /\ RunWithRetryLoop(s_tool, current_attempt)
    /\ UNCHANGED <<entry, exited, avars, fs, s_accession, s_tools, dir, s_raw, produced,
                   s_ok, s_calls, s_prev, OtherThanSra>>

\* The caller calls download_run again with the same arguments: the locals of
\* the call before are gone and the history of the call starts afresh.
DownloadRunAgain ==
    /\ entry = "download_run"
    /\ pc = "done"
    /\ ~exited
    /\ s_calls < MaxSraCalls
    /\ pc' = "download_run"
    /\ s_prev' = s_invoked
    /\ current_attempt' = 0
    /\ s_tool' = ""
    /\ s_raw' = 1
    /\ produced' = <<>>
    /\ s_result' = NoSraResult
    /\ s_invoked' = <<>>
    /\ s_sleeps' = 0
    /\ s_status' = "none"
    /\ s_ok' = <<>>
    /\ UNCHANGED <<entry, exited, avars, fs, s_accession, s_tools, dir, s_calls, OtherThanSra>>

(***************************************************************************)
(* core.rs 332-429 and 451-456: download_fastq, the ENA download of the    *)
(* files of one run record.                                                *)
(***************************************************************************)
NoRun == [k \in {} |-> <<>>]

\* str::ends_with
ends_with(s, suffix) ==
    /\ Len(s) >= Len(suffix)
    /\ SubSeq(s, Len(s) - Len(suffix) + 1, Len(s)) = suffix

\* Variant of __has_expected_filename: the name only has to end with one of
\* the extensions.
has_expected_filename_suffix(acc, observed, extensions) ==
    \E i \in 1..Len(extensions) : ends_with(observed, extensions[i])

\* core.rs 451-456: __has_expected_filename
has_expected_filename(acc, observed, extensions) ==
    \E i \in 1..Len(extensions) : acc \o extensions[i] = observed

FastqIdle ==
    /\ f_run = NoRun
    /\ f_entries = <<>>
    /\ f_index = 1
    /\ f_calls = 0

\* A variant of the entry without the test of the number of files of
\* core.rs 367-389.
DownloadFastqEnter_no_count_test ==
    /\ pc = "download_fastq"
    /\ ~exited
    /\ f_calls' = f_calls + 1
    /\ IF ~({FASTQ_FTP, FASTQ_MD5, LIBRARY_LAYOUT, RUN_ACCESSION} \subseteq DOMAIN f_run)
       THEN /\ exited' = TRUE
            /\ pc' = "exit"
            /\ UNCHANGED <<f_entries, f_index>>
       ELSE LET ftp_entries == Split(f_run[FASTQ_FTP], ";")
                md5_entries == Split(f_run[FASTQ_MD5], ";")
            IN  /\ f_entries' =
                     [i \in 1..Min(Len(ftp_entries), Len(md5_entries)) |->
                         <<ftp_entries[i], md5_entries[i]>>]
                /\ f_index' = 1
                /\ pc' = "download_fastq_next"
                /\ UNCHANGED exited
    /\ UNCHANGED <<entry, avars, f_run, dargs, OtherThanFastq>>

\* core.rs 341-389: the fields of the record, and the number of files the
\* layout allows.
DownloadFastqEnter ==
    /\ pc = "download_fastq"
    /\ ~exited
    /\ f_calls' = f_calls + 1
    /\ IF ~({FASTQ_FTP, FASTQ_MD5, LIBRARY_LAYOUT, RUN_ACCESSION} \subseteq DOMAIN f_run)
       THEN /\ exited' = TRUE
            /\ pc' = "exit"
            /\ UNCHANGED <<f_entries, f_index>>
       ELSE LET ftp_entries == Split(f_run[FASTQ_FTP], ";")
                md5_entries == Split(f_run[FASTQ_MD5], ";")
            IN  IF \/ layout = "single" /\ Len(ftp_entries) # 1
                   \/ layout = "paired" /\ Len(ftp_entries) # 2
                THEN /\ exited' = TRUE
                     /\ pc' = "exit"
                     /\ UNCHANGED <<f_entries, f_index>>
                ELSE /\ f_entries' =
                          [i \in 1..Min(Len(ftp_entries), Len(md5_entries)) |->
                              <<ftp_entries[i], md5_entries[i]>>]
                     /\ f_index' = 1
                     /\ pc' = "download_fastq_next"
                     /\ UNCHANGED exited
    /\ UNCHANGED <<entry, avars, f_run, dargs, OtherThanFastq>>

\* A variant of the loop body without the test of core.rs 422-425.
DownloadFastqNext_no_md5_test ==
    /\ pc = "download_fastq_next"
    /\ ~exited
    /\ IF f_index > Len(f_entries)
       THEN /\ pc' = "done"
            /\ UNCHANGED <<exited, ftp, md5, f_index>>
       ELSE LET ftp_i == f_entries[f_index][1]
                md5_i == f_entries[f_index][2]
                observed == file_name(ftp_i)
                acc == f_run[RUN_ACCESSION]
                library_layout == f_run[LIBRARY_LAYOUT]
                unexpected ==
                    IF library_layout = PAIRED
                    THEN /\ ~(ends_with(ftp_i, R1) \/ ends_with(ftp_i, R2))
                         /\ ~has_expected_filename(acc, observed.value, EXTENSIONS)
                    ELSE IF library_layout = SINGLE
                    THEN ~has_expected_filename(acc, observed.value, EXTENSIONS)
                    ELSE FALSE
            IN  IF ~observed.some \/ unexpected
                THEN /\ exited' = TRUE
                     /\ pc' = "exit"
                     /\ UNCHANGED <<ftp, md5, f_index>>
                ELSE /\ ftp' = ftp_i
                     /\ md5' = md5_i
                     /\ f_index' = f_index + 1
                     /\ pc' = "download"
                     /\ UNCHANGED exited
    /\ UNCHANGED <<entry, avars, f_run, f_entries, f_calls, OtherThanFastq>>

\* core.rs 391-428: the next (ftp, md5) pair: its checks and the call of
\* download, or the end of the loop.
DownloadFastqNext ==
    /\ pc = "download_fastq_next"
    /\ ~exited
    /\ IF f_index > Len(f_entries)
       THEN /\ pc' = "done"
            /\ UNCHANGED <<exited, ftp, md5, f_index>>
       ELSE LET ftp_i == f_entries[f_index][1]
                md5_i == f_entries[f_index][2]
                observed == file_name(ftp_i)
                acc == f_run[RUN_ACCESSION]
                library_layout == f_run[LIBRARY_LAYOUT]
                unexpected ==
                    IF library_layout = PAIRED
                    THEN /\ ~(ends_with(ftp_i, R1) \/ ends_with(ftp_i, R2))
                         /\ ~has_expected_filename(acc, observed.value, EXTENSIONS)
                    ELSE IF library_layout = SINGLE
                    THEN ~has_expected_filename(acc, observed.value, EXTENSIONS)
                    ELSE FALSE
            IN  IF ~observed.some \/ unexpected \/ md5_i = <<>>
                THEN /\ exited' = TRUE
                     /\ pc' = "exit"
                     /\ UNCHANGED <<ftp, md5, f_index>>
                ELSE /\ ftp' = ftp_i
                     /\ md5' = md5_i
                     /\ f_index' = f_index + 1
                     /\ pc' = "download"
                     /\ UNCHANGED exited
    /\ UNCHANGED <<entry, avars, f_run, f_entries, f_calls, OtherThanFastq>>

(***************************************************************************)
(* core.rs 169-290: process_run, after validate_query and get_run_info.    *)
(***************************************************************************)
RunIdle ==
    /\ metadata = FALSE
    /\ check_if_downloadable = FALSE
    /\ provider = "ENA"
    /\ run = NoRun
    /\ stdout = <<>>
    /\ warned = FALSE

\* A variant that takes the last record of the answer.
FirstRecord_last(data) == data[Len(data)]

\* core.rs 214-220: data.get(0), on an answer with a record.
FirstRecord(data) == data[1]

\* A variant in which the metadata flag alone does not end process_run.
ProcessRunMode_metadata_downloads ==
    /\ pc = "process_run_mode"
    /\ ~exited
    /\ IF check_if_downloadable
       THEN /\ stdout' =
                 IF ~check_if_downloadable THEN stdout
                 ELSE LET first == IF result = <<>> THEN NoRun ELSE result[1]
                      IN  IF \/ DOMAIN first = {}
                             \/ FASTQ_FTP \notin DOMAIN first
                             \/ first[FASTQ_FTP] = <<>>
                          THEN Append(stdout, "NOT_FOUND\t" \o Str(accession))
                          ELSE Append(stdout, "DOWNLOADABLE\t" \o Str(accession))
            /\ pc' = "done"
            /\ UNCHANGED <<exited, run, f_run, s_accession, warned>>
       ELSE IF result = <<>>
       THEN /\ exited' = TRUE
            /\ pc' = "exit"
            /\ UNCHANGED <<run, stdout, f_run, s_accession, warned>>
       ELSE /\ run' = FirstRecord(result)
            /\ warned' = (Len(result) > 1)
            /\ UNCHANGED stdout
            /\ IF provider = "ENA"
               THEN /\ f_run' = FirstRecord(result)
                    /\ pc' = "download_fastq"
                    /\ UNCHANGED <<exited, s_accession>>
               ELSE IF RUN_ACCESSION \notin DOMAIN FirstRecord(result)
               THEN /\ exited' = TRUE
                    /\ pc' = "exit"
                    /\ UNCHANGED <<f_run, s_accession>>
               ELSE /\ s_accession' = Str(FirstRecord(result)[RUN_ACCESSION])
                    /\ pc' = "download_run"
                    /\ UNCHANGED <<exited, f_run>>
    /\ UNCHANGED <<entry, avars, metadata, check_if_downloadable, provider,
                   f_entries, f_index, f_calls,
                   s_tools, dir, current_attempt, s_tool, s_raw, produced, s_result,
                   s_invoked, s_sleeps, s_status, s_ok, s_calls, s_prev, OtherThanRun>>

\* core.rs 186-257: the report of the metadata and probe modes, or the first
\* record and the provider's download.
ProcessRunMode ==
    /\ pc = "process_run_mode"
    /\ ~exited
    /\ IF metadata \/ check_if_downloadable
       THEN /\ stdout' =
                 IF ~check_if_downloadable THEN stdout
                 ELSE LET first == IF result = <<>> THEN NoRun ELSE result[1]
                      IN  IF \/ DOMAIN first = {}
                             \/ FASTQ_FTP \notin DOMAIN first
                             \/ first[FASTQ_FTP] = <<>>
                          THEN Append(stdout, "NOT_FOUND\t" \o Str(accession))
                          ELSE Append(stdout, "DOWNLOADABLE\t" \o Str(accession))
            /\ pc' = "done"
            /\ UNCHANGED <<exited, run, f_run, s_accession, warned>>
       ELSE IF result = <<>>
       THEN /\ exited' = TRUE
            /\ pc' = "exit"
            /\ UNCHANGED <<run, stdout, f_run, s_accession, warned>>
       ELSE /\ run' = FirstRecord(result)
            /\ warned' = (Len(result) > 1)
            /\ UNCHANGED stdout
            /\ IF provider = "ENA"
               THEN /\ f_run' = FirstRecord(result)
                    /\ pc' = "download_fastq"
                    /\ UNCHANGED <<exited, s_accession>>
               ELSE IF RUN_ACCESSION \notin DOMAIN FirstRecord(result)
               THEN /\ exited' = TRUE
                    /\ pc' = "exit"
                    /\ UNCHANGED <<f_run, s_accession>>
               ELSE /\ s_accession' = Str(FirstRecord(result)[RUN_ACCESSION])
                    /\ pc' = "download_run"
                    /\ UNCHANGED <<exited, f_run>>
    /\ UNCHANGED <<entry, avars, metadata, check_if_downloadable, provider,
                   f_entries, f_index, f_calls,
                   s_tools, dir, current_attempt, s_tool, s_raw, produced, s_result,
                   s_invoked, s_sleeps, s_status, s_ok, s_calls, s_prev, OtherThanRun>>

\* A variant that falls back to ENA on every error of download_from_sra.
ProcessRunMatch_fallback_on_any_error ==
    /\ pc = "process_run_match"
    /\ ~exited
    /\ IF s_result.tag = "Ok"
       THEN /\ pc' = "done"
            /\ UNCHANGED <<exited, f_run>>
       ELSE /\ f_run' = run
            /\ pc' = "download_fastq"
            /\ UNCHANGED exited
    /\ UNCHANGED <<entry, avars, pvars, f_entries, f_index, f_calls, svars, OtherThanRun>>

\* core.rs 258-287: the match on the result of download_from_sra.
ProcessRunMatch ==
    /\ pc = "process_run_match"
    /\ ~exited
    /\ IF s_result.tag = "Ok"
       THEN /\ pc' = "done"
            /\ UNCHANGED <<exited, f_run>>
       ELSE IF s_result.kind = "MissingTool"
       THEN /\ f_run' = run
            /\ pc' = "download_fastq"
            /\ UNCHANGED exited
       ELSE /\ exited' = TRUE
            /\ pc' = "exit"
            /\ UNCHANGED f_run
    /\ UNCHANGED <<entry, avars, pvars, f_entries, f_index, f_calls, svars, OtherThanRun>>

(***************************************************************************)
(* core.rs 105-125: get_fastqs on a list.  stream::iter(..).map(|accession| *)
(* process_run(..)).buffer_unordered(QUEUE_SIZE) turns the next accession  *)
(* into a job only while fewer than QUEUE_SIZE jobs are in its queue, and  *)
(* polls the queued jobs on the calling task: a job runs, without          *)
(* interleaving, from one await to the next.  The jobs take the same       *)
(* arguments but the accession, so the batch is the number of jobs at each *)
(* place: not yet created, waiting in get_run_info, waiting in a transfer  *)
(* or SRA tool, returned.  What a job meets at each step (its accession,   *)
(* its metadata, its tools) is chosen freely.                              *)
(***************************************************************************)
QUEUE_SIZE == 50

InFlight == b_meta + b_retrieve

BatchIdle ==
    /\ b_total = 0
    /\ b_report = FALSE
    /\ b_queued = 0
    /\ b_meta = 0
    /\ b_retrieve = 0
    /\ b_resolved = 0
    /\ b_failed = 0

\* A variant that takes the whole list at once (buffer_unordered(accessions.len())).
HasRoom_unbounded == InFlight < b_total

\* BufferUnordered::poll_next: in_progress_queue.len() < max.
HasRoom == InFlight < QUEUE_SIZE

\* core.rs 107-122 and 182-184: the stream creates the next job and polls it:
\* validate_query returns the query and get_run_info sends its first request,
\* or validate_query ends the process (utils.rs 62-70).
StartJob ==
    /\ pc = "get_fastqs"
    /\ ~exited
    /\ b_queued > 0
    /\ HasRoom
    /\ b_queued' = b_queued - 1
    /\ \/ /\ b_meta' = b_meta + 1
          /\ UNCHANGED <<exited, b_failed>>
       \/ /\ exited' = TRUE
          /\ b_failed' = b_failed + 1
          /\ UNCHANGED b_meta
    /\ UNCHANGED <<pc, entry, b_total, b_report, b_retrieve, b_resolved, OtherThanBatch>>

\* core.rs 184-289: get_run_info of one job is over.
MetadataReturns ==
    /\ pc = "get_fastqs"
    /\ ~exited
    /\ b_meta > 0
    /\ b_meta' = b_meta - 1
    /\ \/ \* ena.rs 67-73: no record after the last attempt
          /\ exited' = TRUE
          /\ b_failed' = b_failed + 1
          /\ UNCHANGED <<b_retrieve, b_resolved>>
       \/ \* core.rs 186-208: metadata-only or probe mode reports and returns
          /\ b_report
          /\ b_resolved' = b_resolved + 1
          /\ UNCHANGED <<exited, b_failed, b_retrieve>>
       \/ \* core.rs 238-244, 341-356, 367-425: a record the download cannot use
          /\ ~b_report
          /\ exited' = TRUE
          /\ b_failed' = b_failed + 1
          /\ UNCHANGED <<b_retrieve, b_resolved>>
       \/ \* core.rs 427, 537 / sra.rs 102-117: the first transfer or tool is started
          /\ ~b_report
          /\ b_retrieve' = b_retrieve + 1
          /\ UNCHANGED <<exited, b_failed, b_resolved>>
       \/ \* core.rs 519-531 / sra.rs 90-96: every file is already there
          /\ ~b_report
          /\ b_resolved' = b_resolved + 1
          /\ UNCHANGED <<exited, b_failed, b_retrieve>>
    /\ UNCHANGED <<pc, entry, b_total, b_report, b_queued, OtherThanBatch>>

\* core.rs 224-289: the download or SRA step of one job is over.
RetrievalReturns ==
    /\ pc = "get_fastqs"
    /\ ~exited
    /\ b_retrieve > 0
    /\ b_retrieve' = b_retrieve - 1
    /\ \/ /\ b_resolved' = b_resolved + 1
          /\ UNCHANGED <<exited, b_failed>>
       \/ \* core.rs 279-286, 402-425, 537-545: a fatal condition in the step
          /\ exited' = TRUE
          /\ b_failed' = b_failed + 1
          /\ UNCHANGED b_resolved
    /\ UNCHANGED <<pc, entry, b_total, b_report, b_queued, b_meta, OtherThanBatch>>

(***************************************************************************)
(* core.rs 105-125, 182-257: two jobs of one batch.  The jobs of the       *)
(* stream take the same outdir and provider and differ in their accession; *)
(* each runs from one await to the next: created, waiting for the metadata *)
(* of its query, waiting for the transfers or tools that write its files.  *)
(* The metadata provider answers a query for a run with the record of the  *)
(* run, and a query for a study or an experiment with the records of its   *)
(* runs.                                                                   *)
(***************************************************************************)
JobsIdle ==
    /\ j_accession = <<>>
    /\ j_pc = <<>>
    /\ j_dest = <<>>

RunAcc2 == <<"S", "R", "R", "0", "0", "0", "0", "0", "2">>
StudyAcc == <<"S", "R", "P", "0", "0", "0", "0", "0", "1">>
ExperimentAcc == <<"S", "R", "X", "0", "0", "0", "0", "0", "1">>

\* The line of the table for the run r.
LineOfRun(r) == <<r, FtpDir \o r \o FASTQ_GZ, <<"0", "a", "1", "b">>, SINGLE>>

\* The runs the provider lists for an accession, in the order of its table.
RunsOf(acc) ==
    CASE acc = RunAcc -> <<RunAcc>>
      [] acc = RunAcc2 -> <<RunAcc2>>
      [] acc = StudyAcc -> <<RunAcc, RunAcc2>>
      [] acc = ExperimentAcc -> <<RunAcc2>>
      [] OTHER -> <<>>

ResponseFor(acc) ==
    [kind |-> "http", status |-> 200,
     body |-> <<RunHeader>> \o [i \in 1..Len(RunsOf(acc)) |-> LineOfRun(RunsOf(acc)[i])]]

\* core.rs 503-515 and sra.rs 305-329: the files of outdir that the download
\* of the record r writes.
Destinations(prov, r) ==
    IF prov = "ENA"
    THEN LET entries == Split(r[FASTQ_FTP], ";")
         IN  { Str(file_name(entries[i]).value) : i \in 1..Len(entries) }
    ELSE LET a == Str(r[RUN_ACCESSION])
         IN  Range(gz_candidates(a)) \cup Range(raw_candidates(a)) \cup {sra_path(a)}

\* core.rs 182-184: the stream creates and polls the job: validate_query
\* returns the query and get_run_info sends its request, or ends the process.
JobStarts(i) ==
    /\ pc = "jobs"
    /\ ~exited
    /\ j_pc[i] = "created"
    /\ Cardinality({ k \in 1..2 : j_pc[k] \in {"get_run_info", "retrieve"} }) < QUEUE_SIZE
    /\ LET r == validate_query(j_accession[i])
       IN  /\ exited' = r.exit
           /\ j_pc' = [j_pc EXCEPT ![i] = IF r.exit THEN "exit" ELSE "get_run_info"]
    /\ UNCHANGED <<pc, entry, avars, j_accession, j_dest, qvars, mvars, bvars, dvars, fs,
                   pvars, fqvars, svars, returned>>

\* core.rs 184-257: the metadata of the job arrived: the first record, and
\* the start of the download that writes its files.
JobMetadataReturns(i) ==
    /\ pc = "jobs"
    /\ ~exited
    /\ j_pc[i] = "get_run_info"
    /\ LET ena_data == get_ena_metadata(ResponseFor(j_accession[i]))
       IN  IF ena_data.tag # "Success"
           THEN /\ exited' = TRUE
                /\ j_pc' = [j_pc EXCEPT ![i] = "exit"]
                /\ UNCHANGED j_dest
           ELSE /\ j_dest' = [j_dest EXCEPT ![i] = Destinations(provider, ena_data.data[1])]
                /\ j_pc' = [j_pc EXCEPT ![i] = "retrieve"]
                /\ UNCHANGED exited
    /\ UNCHANGED <<pc, entry, avars, j_accession, qvars, mvars, bvars, dvars, fs,
                   pvars, fqvars, svars, returned>>

\* core.rs 224-289: the download of the job is over.
JobRetrievalReturns(i) ==
    /\ pc = "jobs"
    /\ ~exited
    /\ j_pc[i] = "retrieve"
    /\ j_pc' = [j_pc EXCEPT ![i] = "done"]
    /\ UNCHANGED <<pc, entry, exited, avars, j_accession, j_dest, qvars, mvars, bvars,
                   dvars, fs, pvars, fqvars, svars, returned>>

(***************************************************************************)
(* Two retry loops under one attempts argument.  process_run hands the     *)
(* same attempts to download_from_sra (core.rs 246-254) and, through       *)
(* download_fastq, to download (core.rs 224-231, 415-424).  Here a caller  *)
(* calls download_run and then download with that one argument; as in      *)
(* process_run, the caller's position after download_run is                *)
(* process_run_match.                                                      *)
(***************************************************************************)

\* download_run returned: the caller calls download.
RetryLoopsDownload ==
    /\ entry = "retry_loops"
    /\ pc = "process_run_match"
    /\ ~exited
    /\ pc' = "download"
    /\ UNCHANGED <<entry, exited, avars, qvars, mvars, bvars, dvars, fs, pvars, fqvars,
                   svars, jvars, returned>>

(***************************************************************************)
(* The specifications, one per entry point.                                *)
(***************************************************************************)
\* SpecQuery: one call of validate_query.
InitQuery ==
    /\ entry = "validate_query"
    /\ pc = "validate_query"
    /\ exited = FALSE
    /\ returned = <<>>
    /\ JobsIdle
    /\ accession \in Accessions
    /\ query = ""
    /\ max_attempts = 0
    /\ force = FALSE
    /\ layout = "global"
    /\ MetaIdle
    /\ BatchIdle
    /\ DownloadIdle
    /\ RunIdle
    /\ FastqIdle
    /\ SraIdle
    /\ s_tools = {}
    /\ dir = FALSE
    /\ fs = NoFiles

NextQuery == CallValidateQuery

SpecQuery == InitQuery /\ [][NextQuery]_vars

\* SpecMeta: one call of get_run_info.
InitMeta ==
    /\ entry = "get_run_info"
    /\ pc = "get_run_info"
    /\ exited = FALSE
    /\ returned = <<>>
    /\ JobsIdle
    /\ accession = <<>>
    /\ query = ""
    /\ max_attempts \in 0..MaxAttempts
    /\ force = FALSE
    /\ layout = "global"
    /\ MetaIdle
    /\ BatchIdle
    /\ DownloadIdle
    /\ RunIdle
    /\ FastqIdle
    /\ SraIdle
    /\ s_tools = {}
    /\ dir = FALSE
    /\ fs = NoFiles

NextMeta ==
    \/ GetRunInfoLoop
    \/ GetEnaMetadataReturn
    \/ GetRunInfoSleepReturn
    \/ GetRunInfoEnd

SpecMeta == InitMeta /\ [][NextMeta]_vars

\* SpecBatch: get_fastqs on a list of 1, 2, QUEUE_SIZE or MaxBatch accessions.
BatchSizes == {1, 2, QUEUE_SIZE, MaxBatch}

InitBatch ==
    /\ entry = "get_fastqs"
    /\ pc = "get_fastqs"
    /\ exited = FALSE
    /\ returned = <<>>
    /\ JobsIdle
    /\ accession = <<>>
    /\ query = ""
    /\ max_attempts = 0
    /\ force = FALSE
    /\ layout = "global"
    /\ MetaIdle
    /\ DownloadIdle
    /\ RunIdle
    /\ FastqIdle
    /\ SraIdle
    /\ s_tools = {}
    /\ dir = FALSE
    /\ fs = NoFiles
    /\ b_total \in BatchSizes
    /\ b_report \in BOOLEAN
    /\ b_queued = b_total
    /\ b_meta = 0
    /\ b_retrieve = 0
    /\ b_resolved = 0
    /\ b_failed = 0

NextBatch ==
    \/ StartJob
    \/ MetadataReturns
    \/ RetrievalReturns

SpecBatch == InitBatch /\ [][NextBatch]_vars

\* SpecDownload: calls of download for one file, the first on a directory that
\* holds the file or not.
DownloadFtps ==
    { <<"h", "/", "v", "/">> \o RunAcc \o FASTQ_GZ,    \* h/v/SRR000001.fastq.gz
      <<"h", "/", ".", ".">> }                          \* h/..: no file name
Md5s == { <<"0", "a", "1", "b">>, <<"0", "A", "1", "B">>, <<"f", "f", "0", "0">> }

InitDownload ==
    /\ entry = "download"
    /\ pc = "download"
    /\ exited = FALSE
    /\ returned = <<>>
    /\ JobsIdle
    /\ accession = <<>>
    /\ query = ""
    /\ max_attempts \in 0..MaxAttempts
    /\ force \in BOOLEAN
    /\ layout = "global"
    /\ MetaIdle
    /\ BatchIdle
    /\ RunIdle
    /\ FastqIdle
    /\ SraIdle
    /\ s_tools = {}
    /\ dir = TRUE
    /\ ftp \in DownloadFtps
    /\ md5 \in Md5s
    /\ attempt = 0
    /\ fastq = ""
    /\ d_result = "unset"
    /\ fs \in {NoFiles} \cup { WriteFile(NoFiles, Str(RunAcc \o FASTQ_GZ), c) : c \in Contents }
    /\ d_calls = 0
    /\ d_forced = FALSE
    /\ d_transfers = 0
    /\ d_md5s = 0
    /\ d_sleeps = 0
    /\ d_mismatched = 0
    /\ d_verified = FALSE
    /\ d_fs0 = fs
    /\ d_prev = [result |-> "unset", verified |-> FALSE]
    /\ d_status = -1

NextDownload ==
    \/ DownloadEnter
    \/ DownloadLoop
    \/ DownloadOutput
    \/ DownloadSleepReturn
    \/ DownloadAgain

SpecDownload == InitDownload /\ [][NextDownload]_vars

\* SpecSra: one call of download_run, on an outdir that is missing, empty or
\* holds results of an earlier call.
SraAccession == "SRR000001"
SraInitialFiles ==
    LET names == Range(gz_candidates(SraAccession)) \cup {raw_candidates(SraAccession)[1]}
    IN  { [n \in S |-> "A"] : S \in SUBSET names }

InitSra ==
    /\ entry = "download_run"
    /\ pc = "download_run"
    /\ exited = FALSE
    /\ returned = <<>>
    /\ JobsIdle
    /\ accession = <<>>
    /\ query = ""
    /\ max_attempts \in 0..MaxSraAttempts
    /\ force \in BOOLEAN
    /\ layout \in Layouts
    /\ MetaIdle
    /\ BatchIdle
    /\ DownloadIdle
    /\ RunIdle
    /\ FastqIdle
    /\ s_accession = SraAccession
    /\ s_tools \in SUBSET Range(SraTools)
    /\ dir \in BOOLEAN
    /\ fs \in IF dir THEN SraInitialFiles ELSE {NoFiles}
    /\ current_attempt = 0
    /\ s_tool = ""
    /\ s_raw = 1
    /\ produced = <<>>
    /\ s_result = NoSraResult
    /\ s_invoked = <<>>
    /\ s_sleeps = 0
    /\ s_status = "none"
    /\ s_ok = <<>>
    /\ s_calls = 0
    /\ s_prev = <<>>

NextSra ==
    \/ DownloadRunEnter
    \/ RunWithRetryStatus
    \/ RunWithRetrySleepReturn
    \/ DownloadRunAgain

SpecSra == InitSra /\ [][NextSra]_vars

\* SpecRun: one call of process_run.
RunAccessions == { RunAcc, <<"X">> }
RunInitialFiles == { NoFiles, WriteFile(NoFiles, Str(RunAcc \o FASTQ_GZ), "A") }

InitRun ==
    /\ entry = "process_run"
    /\ pc = "validate_query"
    /\ exited = FALSE
    /\ returned = <<>>
    /\ JobsIdle
    /\ accession \in RunAccessions
    /\ query = ""
    /\ max_attempts \in {0, MaxRunAttempts}
    /\ force \in BOOLEAN
    /\ layout \in Layouts
    /\ MetaIdle
    /\ BatchIdle
    /\ DownloadIdle
    /\ FastqIdle
    /\ SraIdle
    /\ metadata \in BOOLEAN
    /\ check_if_downloadable \in BOOLEAN
    /\ provider \in {"ENA", "SRA"}
    /\ run = NoRun
    /\ stdout = <<>>
    /\ warned = FALSE
    /\ s_tools \in { S \in SUBSET Range(SraTools) : provider = "SRA" \/ S = Range(SraTools) }
    /\ dir \in BOOLEAN
    /\ fs \in IF dir THEN RunInitialFiles ELSE {NoFiles}

NextRun ==
    \/ CallValidateQuery
    \/ GetRunInfoLoop
    \/ GetEnaMetadataReturn
    \/ GetRunInfoSleepReturn
    \/ GetRunInfoEnd
    \/ ProcessRunMode
    \/ ProcessRunMatch
    \/ DownloadRunEnter
    \/ RunWithRetryStatus
    \/ RunWithRetrySleepReturn
    \/ DownloadFastqEnter
    \/ DownloadFastqNext
    \/ DownloadEnter
    \/ DownloadLoop
    \/ DownloadOutput
    \/ DownloadSleepReturn

SpecRun == InitRun /\ [][NextRun]_vars

\* SpecRunLive: a call of process_run in download mode on an empty outdir,
\* where every request, process and sleep that is awaited returns, so that a
\* step that can be taken is taken.
InitRunLive ==
    /\ InitRun
    /\ accession = RunAcc
    /\ ~metadata /\ ~check_if_downloadable
    /\ ~force
    /\ layout = "global"
    /\ s_tools \in {Range(SraTools), {}}
    /\ dir
    /\ fs = NoFiles

SpecRunLive == InitRunLive /\ [][NextRun]_vars /\ WF_vars(NextRun)

\* SpecFastq: one call of download_fastq, on records whose fields are present
\* or missing, whose file lists have one, two or three entries with expected
\* and unexpected names, and whose checksum lists are as long, shorter or
\* hold an empty entry.
Ftp(name) == FtpDir \o name
FastqFtps ==
    { Ftp(RunAcc \o FASTQ_GZ),
      Ftp(RunAcc \o R1) \o <<";">> \o Ftp(RunAcc \o R2),
      Ftp(RunAcc \o R1),
      Ftp(<<"X">> \o R1) \o <<";">> \o Ftp(<<"X">> \o FASTQ_GZ),
      Ftp(<<"X">> \o FASTQ_GZ),
      Ftp(RunAcc \o <<"_">> \o SUBREADS \o FQ_GZ),
      Ftp(RunAcc \o FASTQ_GZ) \o <<";">> \o Ftp(RunAcc \o R1) \o <<";">> \o Ftp(RunAcc \o R2),
      <<"h", "/", ".", ".">> }
FastqMd5s ==
    { <<"0", "a", "1", "b">>,
      <<"0", "a", "1", "b", ";", "f", "f", "0", "0">>,
      <<"0", "a", "1", "b", ";">>,
      <<"0", "a", "1", "b", ";", "f", "f", "0", "0", ";", "0", "a", "1", "b">> }
FastqLayouts == { SINGLE, PAIRED }
FullRecords ==
    { [k \in {RUN_ACCESSION, FASTQ_FTP, FASTQ_MD5, LIBRARY_LAYOUT} |->
          CASE k = RUN_ACCESSION -> RunAcc
            [] k = FASTQ_FTP -> f
            [] k = FASTQ_MD5 -> m
            [] OTHER -> l] :
        f \in FastqFtps, m \in FastqMd5s, l \in FastqLayouts }
WithoutField(r, k) == [j \in (DOMAIN r) \ {k} |-> r[j]]
FastqRecords ==
    FullRecords
    \cup { WithoutField(ParseLine(RunHeader, SingleLine), k) :
             k \in {RUN_ACCESSION, FASTQ_FTP, FASTQ_MD5, LIBRARY_LAYOUT} }

InitFastq ==
    /\ entry = "download_fastq"
    /\ pc = "download_fastq"
    /\ exited = FALSE
    /\ returned = <<>>
    /\ JobsIdle
    /\ accession = <<>>
    /\ query = ""
    /\ max_attempts \in 0..MaxFastqAttempts
    /\ force \in BOOLEAN
    /\ layout \in Layouts
    /\ MetaIdle
    /\ BatchIdle
    /\ DownloadIdle
    /\ RunIdle
    /\ SraIdle
    /\ s_tools = {}
    /\ dir = TRUE
    /\ fs \in RunInitialFiles
    /\ f_run \in FastqRecords
    /\ f_entries = <<>>
    /\ f_index = 1
    /\ f_calls = 0

NextFastq ==
    \/ DownloadFastqEnter
    \/ DownloadFastqNext
    \/ DownloadEnter
    \/ DownloadLoop
    \/ DownloadOutput
    \/ DownloadSleepReturn

SpecFastq == InitFastq /\ [][NextFastq]_vars

\* SpecLayout: one call of layout_satisfied, for two accessions and every set
\* of files among their canonical outputs and a raw file.
LayoutAccessions == {"SRR000001", "ERR1234567"}
LayoutFiles ==
    LET names == UNION { Range(gz_candidates(a)) : a \in LayoutAccessions }
                 \cup {raw_candidates("SRR000001")[1]}
    IN  { [n \in S |-> "A"] : S \in SUBSET names }

InitLayout ==
    /\ entry = "layout_satisfied"
    /\ pc = "layout_satisfied"
    /\ exited = FALSE
    /\ returned = <<>>
    /\ JobsIdle
    /\ accession = <<>>
    /\ query = ""
    /\ max_attempts = 0
    /\ force = FALSE
    /\ layout \in Layouts
    /\ MetaIdle
    /\ BatchIdle
    /\ DownloadIdle
    /\ RunIdle
    /\ FastqIdle
    /\ s_accession \in LayoutAccessions
    /\ s_tools = {}
    /\ dir = TRUE
    /\ fs \in LayoutFiles
    /\ current_attempt = 0
    /\ s_tool = ""
    /\ s_raw = 1
    /\ produced = <<>>
    /\ s_result = NoSraResult
    /\ s_invoked = <<>>
    /\ s_sleeps = 0
    /\ s_status = "none"
    /\ s_ok = <<>>
    /\ s_calls = 0
    /\ s_prev = <<>>

NextLayout == CallLayoutSatisfied

SpecLayout == InitLayout /\ [][NextLayout]_vars

\* SpecJobs: two jobs of one batch for distinct accessions: runs, a study
\* and an experiment that hold them, and a string that is no accession.
JobAccessions == { RunAcc, RunAcc2, StudyAcc, ExperimentAcc, <<"X">> }

InitJobs ==
    /\ entry = "jobs"
    /\ pc = "jobs"
    /\ exited = FALSE
    /\ returned = <<>>
    /\ j_accession \in { p \in JobAccessions \X JobAccessions : p[1] # p[2] }
    /\ j_pc = <<"created", "created">>
    /\ j_dest = << {}, {} >>
    /\ accession = <<>>
    /\ query = ""
    /\ max_attempts = 0
    /\ force = FALSE
    /\ layout = "global"
    /\ MetaIdle
    /\ BatchIdle
    /\ DownloadIdle
    /\ FastqIdle
    /\ SraIdle
    /\ metadata = FALSE
    /\ check_if_downloadable = FALSE
    /\ provider \in {"ENA", "SRA"}
    /\ run = NoRun
    /\ stdout = <<>>
    /\ warned = FALSE
    /\ s_tools = Range(SraTools)
    /\ dir = TRUE
    /\ fs = NoFiles

NextJobs ==
    \E i \in 1..2 :
        \/ JobStarts(i)
        \/ JobMetadataReturns(i)
        \/ JobRetrievalReturns(i)

SpecJobs == InitJobs /\ [][NextJobs]_vars

\* SpecRetryLoops: download_run and then download, called with one attempts
\* argument on an outdir that starts empty, with every tool installed.
InitRetryLoops ==
    /\ entry = "retry_loops"
    /\ pc = "download_run"
    /\ exited = FALSE
    /\ returned = <<>>
    /\ JobsIdle
    /\ accession = <<>>
    /\ query = ""
    /\ max_attempts \in 0..MaxSraAttempts
    /\ force = FALSE
    /\ layout = "single"
    /\ MetaIdle
    /\ BatchIdle
    /\ ftp = FtpDir \o RunAcc \o FASTQ_GZ
    /\ md5 = Digest("A")
    /\ attempt = 0
    /\ fastq = ""
    /\ d_result = "unset"
    /\ d_calls = 0
    /\ d_forced = FALSE
    /\ d_transfers = 0
    /\ d_md5s = 0
    /\ d_sleeps = 0
    /\ d_mismatched = 0
    /\ d_verified = FALSE
    /\ d_fs0 = NoFiles
    /\ d_prev = [result |-> "unset", verified |-> FALSE]
    /\ d_status = -1
    /\ RunIdle
    /\ FastqIdle
    /\ s_accession = SraAccession
    /\ s_tools = Range(SraTools)
    /\ dir = TRUE
    /\ fs = NoFiles
    /\ current_attempt = 0
    /\ s_tool = ""
    /\ s_raw = 1
    /\ produced = <<>>
    /\ s_result = NoSraResult
    /\ s_invoked = <<>>
    /\ s_sleeps = 0
    /\ s_status = "none"
    /\ s_ok = <<>>
    /\ s_calls = 0
    /\ s_prev = <<>>

NextRetryLoops ==
    \/ DownloadRunEnter
    \/ RunWithRetryStatus
    \/ RunWithRetrySleepReturn
    \/ RetryLoopsDownload
    \/ DownloadEnter
    \/ DownloadLoop
    \/ DownloadOutput
    \/ DownloadSleepReturn

SpecRetryLoops == InitRetryLoops /\ [][NextRetryLoops]_vars

(***************************************************************************)
(* The claims.                                                             *)
(***************************************************************************)
AllDigitsFrom(s, i) == i <= Len(s) /\ \A j \in i..Len(s) : s[j] \in Digit

\* The four accession categories, written out position by position.
IsProjectStudy(s) ==
    \/ /\ Len(s) >= 6
       /\ SubSeq(s, 1, 3) = <<"P", "R", "J">>
       /\ s[4] \in {"E", "D", "N"}
       /\ s[5] \in Upper
       /\ AllDigitsFrom(s, 6)
    \/ /\ Len(s) >= 9
       /\ s[1] \in {"E", "D", "S"}
       /\ SubSeq(s, 2, 3) = <<"R", "P">>
       /\ AllDigitsFrom(s, 4)
IsSampleBiosample(s) ==
    \/ /\ Len(s) >= 5
       /\ SubSeq(s, 1, 3) = <<"S", "A", "M">>
       /\ s[4] \in {"E", "D", "N"}
       /\ \/ AllDigitsFrom(s, 5)
          \/ s[5] \in Upper /\ AllDigitsFrom(s, 6)
    \/ /\ Len(s) >= 9
       /\ s[1] \in {"E", "D", "S"}
       /\ SubSeq(s, 2, 3) = <<"R", "S">>
       /\ AllDigitsFrom(s, 4)
IsExperiment(s) ==
    /\ Len(s) >= 9
    /\ s[1] \in {"E", "D", "S"}
    /\ SubSeq(s, 2, 3) = <<"R", "X">>
    /\ AllDigitsFrom(s, 4)
IsRun(s) ==
    /\ Len(s) >= 9
    /\ s[1] \in {"E", "D", "S"}
    /\ SubSeq(s, 2, 3) = <<"R", "R">>
    /\ AllDigitsFrom(s, 4)

\* C8: once validate_query has run on accession A, the query is the study form
\* when A is a project/study accession, the sample form when it is a
\* sample/biosample accession, experiment_accession=A for an experiment,
\* run_accession=A for a run; when A is none of the four no query is returned
\* and the input error path (log, exit) was taken.
C8_QueryShape ==
    (entry = "validate_query" /\ pc \in {"done", "exit"}) =>
        LET A == Str(accession)
        IN  /\ IsProjectStudy(accession) =>
                /\ pc = "done"
                /\ query = "(study_accession=" \o A \o " OR secondary_study_accession="
                           \o A \o ")"
            /\ IsSampleBiosample(accession) =>
                /\ pc = "done"
                /\ query = "(sample_accession=" \o A \o " OR secondary_sample_accession="
                           \o A \o ")"
            /\ IsExperiment(accession) =>
                (pc = "done" /\ query = "experiment_accession=" \o A)
            /\ IsRun(accession) =>
                (pc = "done" /\ query = "run_accession=" \o A)
            /\ ~(IsProjectStudy(accession) \/ IsSampleBiosample(accession)
                 \/ IsExperiment(accession) \/ IsRun(accession)) =>
                (pc = "exit" /\ exited /\ query = "")

\* C8 witness: the doc-test of utils.rs 39-46.
C8_Witness ==
    /\ entry = "validate_query"
    /\ pc = "done"
    /\ accession = DocTestAccession
    /\ query = "(study_accession=PRJEB12345 OR secondary_study_accession=PRJEB12345)"

\* C9: in get_run_info the attempt counter always equals the number of failed
\* attempts (transport error, non-2xx status, no record), and a successful
\* return after k failed attempts happens after exactly k retry sleeps and k+1
\* requests, with k at most max_attempts.
C9_SleepsEqualFailures ==
    entry = "get_run_info" =>
        /\ attempts = m_failed
        /\ pc = "done" =>
            /\ result # <<>>
            /\ m_sleeps = m_failed
            /\ m_requests = m_failed + 1
            /\ m_failed <= max_attempts

\* C9 witness: three failed attempts, then a record (end-to-end scenario 2).
C9_Witness ==
    /\ entry = "get_run_info"
    /\ pc = "done"
    /\ m_failed = 3
    /\ m_sleeps = 3
    /\ Len(result) >= 1

\* An HTTP-success response with no record: an empty body, or a header line
\* followed by no non-empty line.
EmptySuccess(resp) ==
    /\ resp.kind = "http"
    /\ resp.status \in 200..299
    /\ \A i \in 2..Len(resp.body) : resp.body[i] = EmptyLine

\* C10: the step that receives an HTTP-success response with zero records
\* counts one attempt and goes on to the retry sleep, adding nothing to the
\* result: it never leaves the loop as a success.
C10_EmptySuccessRetried ==
    [][(pc = "get_ena_metadata" /\ pc' # "get_ena_metadata" /\ EmptySuccess(response'))
        => /\ attempts' = attempts + 1
           /\ pc' = "get_run_info_sleep"
           /\ result' = result
           /\ ~exited']_vars

\* C10 witness: a header line alone was answered with status 200 and the call
\* is in its retry sleep.
C10_Witness ==
    /\ entry = "get_run_info"
    /\ pc = "get_run_info_sleep"
    /\ EmptySuccess(response)
    /\ Len(response.body) = 1
    /\ attempts = 1

\* C1: the step in which one job of a batch fails fatally ends that job alone:
\* while sibling accessions are waiting or in flight, the process goes on, so
\* that each of them can still be processed to its own outcome.
C1_FailureEndsOnlyThatJob ==
    [][(b_failed' > b_failed /\ b_queued' + b_meta' + b_retrieve' > 0) => ~exited']_vars

\* C2: at most QUEUE_SIZE (50) jobs are started and not yet finished.
C2_InFlightBounded ==
    entry = "get_fastqs" => b_meta + b_retrieve <= 50

\* C2 witness: 50 jobs in flight while accessions are still waiting.
C2_Witness ==
    /\ entry = "get_fastqs"
    /\ b_meta + b_retrieve = 50
    /\ b_meta > 0
    /\ b_retrieve > 0
    /\ b_queued > 0

\* C3: when a batch has come to rest (no job can take a step), every accession
\* was started and its job has returned with an outcome.
C3_EveryJobResolves ==
    (entry = "get_fastqs" /\ ~ENABLED NextBatch)
        => (b_queued = 0 /\ b_resolved + b_failed = b_total)

\* C4: a call of download without force in which every transfer left a file
\* whose checksum differs from the expected one (whatever the letter case) has
\* made max_attempts + 1 transfers and returns a result that is not the
\* successful Some(path).
C4_MismatchReportsFailure ==
    (/\ entry = "download"
     /\ pc = "done"
     /\ ~force
     /\ d_transfers > 0
     /\ d_mismatched = d_transfers)
        => (d_transfers = max_attempts + 1 /\ d_result # "Some")

\* C5: a call of download without force that found its destination file in
\* outdir has returned None (skipped) at once: no transfer process, no
\* checksum, and the files of outdir as they were.
C5_ExistingFileSkipped ==
    (/\ entry = "download"
     /\ pc # "download"
     /\ ~force
     /\ fastq = "SRR000001.fastq.gz"
     /\ "SRR000001.fastq.gz" \in DOMAIN d_fs0)
        => /\ pc = "done"
           /\ d_result = "None"
           /\ d_transfers = 0
           /\ d_md5s = 0
           /\ fs = d_fs0

\* C5 witness: the second call, after a call that transferred and verified the
\* file, is skipped.
C5_Witness ==
    /\ entry = "download"
    /\ pc = "done"
    /\ d_calls = 2
    /\ ~force
    /\ d_prev = [result |-> "Some", verified |-> TRUE]
    /\ "SRR000001.fastq.gz" \in DOMAIN d_fs0
    /\ d_result = "None"
    /\ d_transfers = 0

\* C7: when prefetch, fasterq-dump or pigz is not resolvable, the step that
\* enters download_run returns MissingTool naming the first of them that is
\* missing, and does nothing else: outdir is not created, its files are
\* neither deleted nor written, and no tool has been started.
C7_ToolMissingBeforeAnyWork ==
    [][(/\ pc = "download_run"
        /\ ("prefetch" \notin s_tools \/ "fasterq-dump" \notin s_tools
              \/ "pigz" \notin s_tools))
           => /\ s_result'.tag = "Err"
              /\ s_result'.kind = "MissingTool"
              /\ s_result'.tool = (IF "prefetch" \notin s_tools THEN "prefetch"
                                   ELSE IF "fasterq-dump" \notin s_tools THEN "fasterq-dump"
                                   ELSE "pigz")
              /\ pc' \in {"done", "process_run_match"}
              /\ dir' = dir
              /\ fs' = fs
              /\ s_invoked = <<>>
              /\ s_invoked' = <<>>]_vars

\* C7 witness: download_run with force on an outdir that holds an output file,
\* only pigz missing, has returned MissingTool("pigz") and the file is there.
C7_Witness ==
    /\ entry = "download_run"
    /\ pc = "done"
    /\ force
    /\ s_tools = {"prefetch", "fasterq-dump"}
    /\ s_result.kind = "MissingTool"
    /\ s_result.tool = "pigz"
    /\ "SRR000001.fastq.gz" \in DOMAIN fs
    /\ s_invoked = <<>>

\* C6: under the SRA provider, when download_from_sra returned MissingTool,
\* process_run starts download_fastq on the first record get_run_info
\* returned, and no step of that download sends a metadata request or changes
\* the records; when it returned any other error, the process ends and
\* download_fastq was never started.
EnaDownloadPositions ==
    {"download_fastq", "download_fastq_next", "download", "download_loop",
     "download_output", "download_sleep"}

C6_FallbackOnlyOnToolMissing ==
    [][/\ (/\ entry = "process_run"
           /\ provider = "SRA"
           /\ pc = "process_run_match"
           /\ s_result.tag = "Err")
          => IF s_result.kind = "MissingTool"
             THEN /\ pc' = "download_fastq"
                  /\ f_run' = result[1]
                  /\ ~exited'
                  /\ m_requests' = m_requests
             ELSE /\ exited'
                  /\ pc' = "exit"
                  /\ f_calls' = 0
                  /\ d_calls' = 0
       /\ (/\ entry = "process_run"
           /\ provider = "SRA"
           /\ pc \in EnaDownloadPositions)
          => /\ s_result.kind = "MissingTool"
             /\ f_run = result[1]
             /\ m_requests' = m_requests
             /\ result' = result]_vars

\* C6 witness: with provider SRA and prefetch missing, the fallback has
\* transferred and verified the file of the record, after the one request
\* that returned it.
C6_Witness ==
    /\ entry = "process_run"
    /\ provider = "SRA"
    /\ pc = "done"
    /\ s_result.kind = "MissingTool"
    /\ s_result.tool = "prefetch"
    /\ s_invoked = <<>>
    /\ f_calls = 1
    /\ f_run = result[1]
    /\ d_transfers > 0
    /\ d_verified
    /\ m_requests = m_failed + 1

\* C11: the step in which a response with at least one record line arrives
\* takes get_run_info out of the loop with exactly the records of that
\* response, and the next step returns them: no request and no sleep follows.
RecordLines(resp) == { i \in 2..Len(resp.body) : resp.body[i] # EmptyLine }

C11_SuccessReturnsAtOnce ==
    [][/\ (/\ entry = "get_run_info"
           /\ pc = "get_ena_metadata"
           /\ pc' # "get_ena_metadata"
           /\ response'.kind = "http"
           /\ response'.status \in 200..299
           /\ RecordLines(response') # {})
          => /\ pc' = "get_run_info_end"
             /\ Len(result') = Cardinality(RecordLines(response'))
             /\ result' = get_ena_metadata(response').data
             /\ attempts' = attempts
             /\ m_sleeps' = m_sleeps
       /\ (/\ entry = "get_run_info"
           /\ pc = "get_run_info_end"
           /\ result # <<>>)
          => /\ pc' = "done"
             /\ ~exited'
             /\ result' = result
             /\ m_requests' = m_requests
             /\ m_sleeps' = m_sleeps]_vars

\* C11 witness: with max_attempts 3, the second request was answered with two
\* records and the call returned them after two requests and one sleep.
C11_Witness ==
    /\ entry = "get_run_info"
    /\ pc = "done"
    /\ max_attempts = 3
    /\ Len(result) = 2
    /\ m_requests = 2
    /\ m_sleeps = 1

\* C12: one call of get_run_info sends at most max_attempts metadata
\* requests, and it never returns an empty list: when no request gave a
\* record the process ends instead.
C12_AtMostMaxAttemptsRequests ==
    entry = "get_run_info" =>
        /\ m_requests <= max_attempts
        /\ pc = "done" => result # <<>>
        /\ (pc = "get_run_info_end" /\ result = <<>>) => m_failed = m_requests

Entries(s) == Cardinality({ i \in 1..Len(s) : s[i] = ";" }) + 1

AllFields == {RUN_ACCESSION, FASTQ_FTP, FASTQ_MD5, LIBRARY_LAYOUT}

\* C14: once download_fastq has read a record whose fastq_ftp and fastq_md5
\* lists differ in length, the process has ended with an error and download
\* was never called.
C14_UnequalListsAreFatal ==
    (/\ entry = "download_fastq"
     /\ pc # "download_fastq"
     /\ AllFields \subseteq DOMAIN f_run
     /\ Entries(f_run[FASTQ_FTP]) # Entries(f_run[FASTQ_MD5]))
        => (exited /\ d_calls = 0)

\* Does the file named by the accession of the call and a suffix exist?
Present(suffix) == (s_accession \o suffix) \in DOMAIN fs

\* The canonical outputs of the accession of the call that exist.
CanonicalPresent == { x \in {".fastq.gz", "_1.fastq.gz", "_2.fastq.gz"} : Present(x) }

\* C15: for every accession and every set of existing files, layout
\* validation for Paired is true when exactly ACC_1.fastq.gz and
\* ACC_2.fastq.gz exist and false when only one of the two exists; for Single
\* it is true when only ACC.fastq.gz exists and false when no canonical file
\* exists; for Global it is true exactly when ACC.fastq.gz exists or both
\* mate files exist.
C15_LayoutValidation ==
    (entry = "layout_satisfied" /\ pc = "done") =>
        /\ (layout = "paired" /\ CanonicalPresent = {"_1.fastq.gz", "_2.fastq.gz"})
               => returned = <<TRUE>>
        /\ (layout = "paired" /\ Present("_1.fastq.gz") # Present("_2.fastq.gz"))
               => returned = <<FALSE>>
        /\ (layout = "single" /\ CanonicalPresent = {".fastq.gz"}) => returned = <<TRUE>>
        /\ (layout = "single" /\ CanonicalPresent = {}) => returned = <<FALSE>>
        /\ layout = "global" =>
               returned = << Present(".fastq.gz")
                             \/ (Present("_1.fastq.gz") /\ Present("_2.fastq.gz")) >>

\* A Paired call found one mate only, among files of another accession, and
\* answered false.
C15_Witness ==
    /\ entry = "layout_satisfied"
    /\ pc = "done"
    /\ layout = "paired"
    /\ CanonicalPresent = {"_2.fastq.gz"}
    /\ Cardinality(DOMAIN fs) > 1
    /\ returned = <<FALSE>>

\* C16: layout validation enforces the declared output file count: Single
\* validates only if exactly one canonical output file of the accession
\* exists, and Paired only if exactly the two mate files exist, with no other
\* canonical output file.
C16_ValidationEnforcesFileCount ==
    (entry = "layout_satisfied" /\ pc = "done" /\ returned = <<TRUE>>) =>
        /\ layout = "single" => Cardinality(CanonicalPresent) = 1
        /\ layout = "paired" => CanonicalPresent = {"_1.fastq.gz", "_2.fastq.gz"}

\* The names the claim allows for a file of run acc that is not a mate file.
FixedSuffixNames(acc) ==
    { acc \o sfx :
        sfx \in { FASTQ_GZ, FQ_GZ,
                  <<"_">> \o SUBREADS \o FASTQ_GZ, <<"_">> \o SUBREADS \o FQ_GZ,
                  <<".">> \o SUBREADS \o FASTQ_GZ, <<".">> \o SUBREADS \o FQ_GZ } }

\* Does the entry e of fastq_ftp of the record r pass the check of its name?
NameAccepted(r, e) ==
    /\ file_name(e).some
    /\ \/ r[LIBRARY_LAYOUT] = PAIRED /\ (ends_with(e, R1) \/ ends_with(e, R2))
       \/ file_name(e).value \in FixedSuffixNames(r[RUN_ACCESSION])

C18_EmptyChecksumIsFatal ==
    [][/\ (entry = "download_fastq" /\ pc = "download_fastq_next"
           /\ f_index <= Len(f_entries) /\ f_entries[f_index][2] = <<>>)
          => /\ exited' /\ pc' = "exit"
             /\ d_calls' = d_calls /\ d_transfers' = d_transfers /\ fs' = fs
             /\ f_index' = f_index
       /\ (entry = "download_fastq" /\ pc' = "download") => md5' # <<>>]_vars

\* The second pair of a record had a well named file and an empty checksum,
\* and the process ended after the one call of download for the first pair.
C18_Witness ==
    /\ entry = "download_fastq"
    /\ exited
    /\ AllFields \subseteq DOMAIN f_run
    /\ Len(f_entries) >= 2
    /\ f_index = 2
    /\ NameAccepted(f_run, f_entries[2][1])
    /\ f_entries[2][2] = <<>>
    /\ d_calls = 1

\* Does the number of fastq_ftp entries of the record r differ from the one
\* its library_layout asks for?
CountDiffersFromLibraryLayout(r) ==
    \/ r[LIBRARY_LAYOUT] = PAIRED /\ Entries(r[FASTQ_FTP]) # 2
    \/ r[LIBRARY_LAYOUT] = SINGLE /\ Entries(r[FASTQ_FTP]) # 1

\* C19, as the specification states it: with declared layout Global, once
\* download_fastq has read a record whose number of fastq_ftp entries
\* differs from the one its library_layout asks for (2 for PAIRED, 1 for
\* SINGLE), no transfer is ever started.
C19_GlobalCountMatchesLibraryLayout ==
    (/\ entry = "download_fastq"
     /\ layout = "global"
     /\ pc # "download_fastq"
     /\ AllFields \subseteq DOMAIN f_run
     /\ CountDiffersFromLibraryLayout(f_run)) => (d_calls = 0 /\ d_transfers = 0)

\* C19, amended: the number of fastq_ftp entries is checked against the
\* declared layout before any transfer: with declared layout Paired a record
\* must have exactly 2 entries and with Single exactly 1, and a mismatch ends
\* the process in the entering step, before any call of download; with
\* declared layout Global the number of entries is not checked.
C19_CountMatchesDeclaredLayout ==
    [][(/\ entry = "download_fastq"
        /\ pc = "download_fastq"
        /\ AllFields \subseteq DOMAIN f_run)
       => LET n == Entries(f_run[FASTQ_FTP])
          IN  IF (layout = "paired" /\ n # 2) \/ (layout = "single" /\ n # 1)
              THEN /\ exited' /\ pc' = "exit"
                   /\ d_calls' = 0 /\ d_transfers' = 0 /\ fs' = fs
              ELSE /\ ~exited' /\ pc' = "download_fastq_next"]_vars

\* A PAIRED record of one file was refused under declared layout Paired,
\* before any call of download.
C19_Witness ==
    /\ entry = "download_fastq"
    /\ exited
    /\ layout = "paired"
    /\ AllFields \subseteq DOMAIN f_run
    /\ Entries(f_run[FASTQ_FTP]) = 1
    /\ f_run[LIBRARY_LAYOUT] = PAIRED
    /\ f_entries = <<>>
    /\ d_calls = 0

\* C20: with force, download starts the transfer even when the destination
\* file exists, and the first transfer that ends with exit status zero is
\* accepted: the call returns the path in that step, without a retry, and no
\* checksum is computed or compared at any step of the call.
C20_ForceAcceptsFirstExitZero ==
    [][(entry = "download" /\ force)
       => /\ (pc = "download" /\ file_name(ftp).some)
                => (pc' = "download_loop" /\ ~exited' /\ fs' = fs)
          /\ (pc = "download_loop" /\ d_transfers = 0)
                => (pc' = "download_output" /\ d_transfers' = 1)
          /\ (pc = "download_output" /\ d_status' = 0)
                => /\ pc' = "done" /\ ~exited' /\ d_result' = "Some"
                   /\ attempt' = attempt /\ d_sleeps' = d_sleeps
                   /\ d_transfers' = d_transfers
          /\ pc \in {"download", "download_loop", "download_output", "download_sleep"}
                => (d_md5s' = 0 /\ ~d_verified')]_vars

\* A forced call on a file that existed returned the path after a failed and
\* a successful transfer, with a content that does not have the expected
\* digest and no checksum computed.
C20_Witness ==
    /\ entry = "download"
    /\ force
    /\ pc = "done"
    /\ d_result = "Some"
    /\ fastq \in DOMAIN d_fs0
    /\ d_transfers = 2
    /\ d_sleeps = 1
    /\ d_status = 0
    /\ d_mismatched > 0
    /\ d_md5s = 0

\* C21: in a call of download without force, a computed checksum that equals
\* the expected one up to the case of its letters is a match: the step that
\* computed it returns Some(path) with the file verified, and attempt is not
\* incremented.
C21_ChecksumComparedWithoutCase ==
    [][(/\ entry = "download"
        /\ pc = "download_output"
        /\ ~force
        /\ d_md5s' = d_md5s + 1
        /\ fastq \in DOMAIN fs'
        /\ Digest(fs'[fastq]) = Lower(md5))
       => (pc' = "done" /\ d_result' = "Some" /\ d_verified' /\ attempt' = attempt)]_vars

\* C22: when prefetch exits with code 3, download_run returns NotFound in
\* that step: prefetch is not started again, no retry sleep happens, and
\* fasterq-dump and pigz are never started, whatever the attempts left.
C22_NotFoundIsNotRetried ==
    [][(/\ entry = "download_run"
        /\ pc = "run_with_retry_status"
        /\ s_tool = "prefetch"
        /\ s_status' = "3")
       => /\ pc' = "done"
          /\ s_result'.tag = "Err"
          /\ s_result'.kind = "NotFound"
          /\ s_result'.tool = "prefetch"
          /\ s_invoked' = s_invoked
          /\ \A i \in 1..Len(s_invoked') : s_invoked'[i] = "prefetch"
          /\ s_sleeps' = s_sleeps
          /\ produced' = <<>>]_vars

\* The first run of prefetch, of the two that download_run was allowed,
\* exited with code 3 and download_run returned NotFound.
C22_Witness ==
    /\ entry = "download_run"
    /\ pc = "done"
    /\ max_attempts = 2
    /\ s_status = "3"
    /\ s_invoked = <<"prefetch">>
    /\ s_sleeps = 0
    /\ s_result.kind = "NotFound"

\* Do the canonical outputs that exist satisfy the declared layout?
DeclaredLayoutHolds ==
    LET one == Present(".fastq.gz")
        two == Present("_1.fastq.gz") /\ Present("_2.fastq.gz")
    IN  (layout = "single" /\ one) \/ (layout = "paired" /\ two)
        \/ (layout = "global" /\ (one \/ two))

\* C23: every return of Ok by download_run, through the skip or after an
\* extraction, happens in a state whose files satisfy the declared layout;
\* and when download_run returns after the last tool succeeded, with files
\* compressed and the container gone, in a state whose files do not satisfy
\* the layout, it returns LayoutMismatch.
C23_OkOnlyWithLayoutSatisfied ==
    [][(entry = "download_run" /\ pc' = "done")
       => /\ s_result'.tag = "Ok" => DeclaredLayoutHolds'
          /\ (/\ s_status' = "success"
              /\ produced' # <<>>
              /\ (s_accession \o ".sra") \notin DOMAIN fs'
              /\ ~DeclaredLayoutHolds')
                => (s_result'.tag = "Err" /\ s_result'.kind = "LayoutMismatch")]_vars

\* A call with declared layout Paired extracted and compressed a single file
\* and returned LayoutMismatch.
C23_Witness ==
    /\ entry = "download_run"
    /\ pc = "done"
    /\ layout = "paired"
    /\ s_status = "success"
    /\ produced = <<"SRR000001.fastq.gz">>
    /\ Present(".fastq.gz")
    /\ ~DeclaredLayoutHolds
    /\ s_result.kind = "LayoutMismatch"

\* C24: a call of download_run without force on files that already satisfy
\* the declared layout starts no tool and leaves every file as it was, and
\* with the three tools resolvable it returns, in its first step, the
\* canonical outputs that exist; so the call after a successful call does no
\* work.
C24_SatisfiedLayoutIsSkipped ==
    [][(entry = "download_run" /\ pc = "download_run" /\ ~force /\ DeclaredLayoutHolds)
       => /\ pc' = "done"
          /\ fs' = fs
          /\ s_invoked' = <<>>
          /\ s_sleeps' = 0
          /\ {"prefetch", "fasterq-dump", "pigz"} \subseteq s_tools
                => /\ s_result'.tag = "Ok"
                   /\ s_result'.paths =
                        SelectSeq(<<s_accession \o ".fastq.gz", s_accession \o "_1.fastq.gz",
                                    s_accession \o "_2.fastq.gz">>,
                                  LAMBDA p : p \in DOMAIN fs)]_vars

\* The second of two calls in a row without force: the first ran the tools up
\* to pigz, the second returned the files without starting one.
C24_Witness ==
    /\ entry = "download_run"
    /\ pc = "done"
    /\ ~force
    /\ s_calls = 2
    /\ \E i \in 1..Len(s_prev) : s_prev[i] = "pigz"
    /\ s_invoked = <<>>
    /\ s_result.tag = "Ok"
    /\ s_result.paths # <<>>

\* C25: in probe mode, once process_run has ended for a well-formed accession
\* whose last metadata request was answered with a success status, it has
\* reported exactly one line: DOWNLOADABLE when the first record has a
\* non-empty fastq_ftp field, NOT_FOUND otherwise.
C25_ProbeReportsOneAnswer ==
    (/\ entry = "process_run"
     /\ check_if_downloadable
     /\ pc \in {"done", "exit"}
     /\ query # ""
     /\ response.kind = "http"
     /\ response.status \in 200..299)
        => /\ Len(stdout) = 1
           /\ stdout[1] =
                IF /\ result # <<>>
                   /\ "fastq_ftp" \in DOMAIN result[1]
                   /\ result[1]["fastq_ftp"] # <<>>
                THEN "DOWNLOADABLE\t" \o Str(accession)
                ELSE "NOT_FOUND\t" \o Str(accession)

\* C26: in metadata-only mode and in probe mode no step of process_run, for
\* either provider, starts download_fastq, download or download_run, a
\* transfer process or an SRA tool, and none creates the destination
\* directory or creates, deletes or modifies a file in it.
C26_ReportModesLeaveFilesAlone ==
    [][(entry = "process_run" /\ (metadata \/ check_if_downloadable))
       => /\ fs' = fs
          /\ dir' = dir
          /\ f_calls' = 0
          /\ d_calls' = 0
          /\ d_transfers' = 0
          /\ s_calls' = 0
          /\ s_invoked' = <<>>
          /\ pc' \in {"validate_query", "get_run_info", "get_ena_metadata",
                      "get_run_info_sleep", "get_run_info_end", "process_run_mode",
                      "done", "exit"}]_vars

\* process_run has returned in metadata-only mode under the SRA provider, on
\* records of a run whose output file was not there.
C26_Witness ==
    /\ entry = "process_run"
    /\ pc = "done"
    /\ metadata
    /\ ~check_if_downloadable
    /\ provider = "SRA"
    /\ result # <<>>
    /\ fs = NoFiles
    /\ stdout = <<>>

\* C27: two jobs of one batch for distinct accessions never write the same
\* file of outdir: while both are retrieving, the files one writes and the
\* files the other writes are disjoint.
C27_JobsWriteDistinctFiles ==
    (/\ entry = "jobs"
     /\ j_accession[1] # j_accession[2]
     /\ j_pc[1] = "retrieve"
     /\ j_pc[2] = "retrieve") => j_dest[1] \cap j_dest[2] = {}

\* Do the canonical outputs of the run of the record satisfy the declared
\* layout?
RecordLayoutHolds ==
    LET a == Str(f_run["run_accession"])
        one == (a \o ".fastq.gz") \in DOMAIN fs
        two == (a \o "_1.fastq.gz") \in DOMAIN fs /\ (a \o "_2.fastq.gz") \in DOMAIN fs
    IN  (layout = "single" /\ one) \/ (layout = "paired" /\ two)
        \/ (layout = "global" /\ (one \/ two))

\* C28: in download mode the layout is checked after a fresh retrieval and
\* before success: once the ENA download of a record has returned normally
\* after a transfer, the files of outdir satisfy the declared layout.
C28_SuccessOnlyWithLayoutSatisfied ==
    (/\ entry = "download_fastq"
     /\ pc = "done"
     /\ ~exited
     /\ d_transfers > 0) => RecordLayoutHolds

\* The non-empty lines after the header line of a body, in their order; the
\* empty line is the line of one empty column.
DataLines(body) == SelectSeq(Tail(body), LAMBDA l : l # << <<>> >>)

\* C29: in every record get_run_info holds, no field maps to the empty
\* string, every key is a name of the header line of the response, and a
\* column that is empty in the data line of the record is absent from it
\* (unless another column of the same name has a value).
C29_NoEmptyField ==
    (entry = "get_run_info" /\ result # <<>>) =>
        LET header == Head(response.body)
            lines == DataLines(response.body)
        IN  /\ Len(result) = Len(lines)
            /\ \A i \in 1..Len(result) :
                 /\ \A k \in DOMAIN result[i] :
                      /\ result[i][k] # <<>>
                      /\ \E c \in 1..Len(header) : header[c] = k
                 /\ \A c \in 1..Len(header) :
                      (\A d \in 1..Len(header) :
                          (header[d] = header[c] /\ d <= Len(lines[i])) => lines[i][d] = <<>>)
                         => header[c] \notin DOMAIN result[i]

\* A record of a line whose fastq_ftp column is empty: the record has the run
\* accession alone.
C29_Witness ==
    /\ entry = "get_run_info"
    /\ pc = "done"
    /\ Len(result) = 1
    /\ Head(response.body) = <<"run_accession", "fastq_ftp">>
    /\ DataLines(response.body) = << << <<"R">>, <<>> >> >>
    /\ DOMAIN result[1] = {"run_accession"}

\* C30: no accession matches more than one of the four patterns, so that the
\* query validate_query returns is the form of whichever pattern the
\* accession matches, whatever the order in which the patterns are tried.
C30_PatternsExclusive ==
    entry = "validate_query" =>
        LET A == Str(accession)
            study == is_match(PROJECT_STUDY_RE, accession)
            sample == is_match(SAMPLE_BIOSAMPLE_RE, accession)
            experiment == is_match(EXPERIMENT_RE, accession)
            rrun == is_match(RUN_RE, accession)
        IN  /\ ~(study /\ sample) /\ ~(study /\ experiment) /\ ~(study /\ rrun)
            /\ ~(sample /\ experiment) /\ ~(sample /\ rrun) /\ ~(experiment /\ rrun)
            /\ pc = "done" =>
                 /\ rrun => query = "run_accession=" \o A
                 /\ experiment => query = "experiment_accession=" \o A
                 /\ sample => query = "(sample_accession=" \o A
                                      \o " OR secondary_sample_accession=" \o A \o ")"
                 /\ study => query = "(study_accession=" \o A
                                     \o " OR secondary_study_accession=" \o A \o ")"

\* A secondary sample accession, which shares its first two letters with
\* studies, experiments and runs, matched the sample pattern alone.
C30_Witness ==
    /\ entry = "validate_query"
    /\ pc = "done"
    /\ SubSeq(accession, 1, 3) = <<"S", "R", "S">>
    /\ is_match(SAMPLE_BIOSAMPLE_RE, accession)
    /\ ~is_match(PROJECT_STUDY_RE, accession)
    /\ ~is_match(EXPERIMENT_RE, accession)
    /\ ~is_match(RUN_RE, accession)
    /\ query = "(sample_accession=" \o Str(accession)
               \o " OR secondary_sample_accession=" \o Str(accession) \o ")"

\* The positions of process_run before its first record is taken.
BeforeFirstRecord ==
    {"validate_query", "get_run_info", "get_ena_metadata", "get_run_info_sleep",
     "get_run_info_end", "process_run_mode"}

\* The files a record lists in its fastq_ftp field.
FilesOf(r) ==
    IF FASTQ_FTP \in DOMAIN r THEN Range(Split(r[FASTQ_FTP], ";")) ELSE {}

\* C31: in download mode, once the metadata answer holds more than one record,
\* the warning was logged and everything retrieved belongs to the first
\* record: download_fastq got the first record, every call of download has a
\* file of the first record and none of a later one, and download_run got the
\* first record's accession.
C31_OnlyFirstRecordRetrieved ==
    ( /\ entry = "process_run"
      /\ ~metadata /\ ~check_if_downloadable
      /\ Len(result) > 1
      /\ pc \notin BeforeFirstRecord )
    => /\ warned
       /\ run = result[1]
       /\ f_calls > 0 => f_run = result[1]
       /\ d_calls > 0 =>
            /\ ftp \in FilesOf(result[1])
            /\ \A k \in 2..Len(result) : ftp \notin FilesOf(result[k])
       /\ s_calls > 0 => s_accession = Str(result[1][RUN_ACCESSION])

\* An answer of two records, the file of the first one transferred, and the
\* call returned.
C31_Witness ==
    /\ entry = "process_run"
    /\ ~metadata /\ ~check_if_downloadable
    /\ Len(result) = 2
    /\ FilesOf(result[2]) # {} /\ FilesOf(result[2]) \cap FilesOf(result[1]) = {}
    /\ pc = "done"
    /\ warned
    /\ d_calls = 1 /\ d_transfers > 0
    /\ ftp \in FilesOf(result[1])

\* Both calls are over, every run of prefetch ended with code 1 and every
\* transfer ended with a code other than 0.
BothLoopsAlwaysFailed ==
    /\ entry = "retry_loops"
    /\ pc = "download_fastq_next"
    /\ s_result = CommandFailed(PREFETCH, 1)
    /\ Range(s_invoked) \subseteq {PREFETCH}
    /\ d_result = "Some"
    /\ d_md5s = 0
    /\ d_sleeps = d_transfers

\* C32: with one attempts argument and processes that always end with the
\* same code other than 0 and 3, run_with_retry starts the fetch tool as many
\* times as download starts the transfer.
C32_SameNumberOfInvocations ==
    BothLoopsAlwaysFailed => Len(s_invoked) = d_transfers

\* C33: the compression tool is started once for a raw file that exists and
\* never again for the same file, no sleep follows a run of it, and a run of
\* it that fails ends download_run with an error in that step: no tool is
\* started, no sleep happens, the files compressed before stay, and the raw
\* files that come later stay as they are, uncompressed.
C33_CompressionOnceAndFatal ==
    [][ LET raws == raw_candidates(s_accession)
        IN  /\ ( /\ Len(s_invoked') > Len(s_invoked)
                 /\ s_tool' = PIGZ )
               => /\ raws[s_raw'] \in DOMAIN fs'
                  /\ s_tool = PIGZ => s_raw' > s_raw
            /\ s_tool = PIGZ => pc' # "run_with_retry_sleep"
            /\ ( /\ pc = "run_with_retry_status"
                 /\ s_tool = PIGZ
                 /\ s_status' \notin {"none", "success"} )
               => /\ pc' \in {"done", "process_run_match"}
                  /\ s_result'.tag = "Err"
                  /\ s_result'.tool \in {PIGZ, ""}
                  /\ s_invoked' = s_invoked
                  /\ s_sleeps' = s_sleeps
                  /\ \A n \in Range(produced) : n \in DOMAIN fs => n \in DOMAIN fs'
                  /\ \A j \in (s_raw + 1)..3 :
                       /\ raws[j] \in DOMAIN fs => raws[j] \in DOMAIN fs'
                       /\ (raws[j] \o ".gz") \in DOMAIN fs' => (raws[j] \o ".gz") \in DOMAIN fs
      ]_vars

\* The first raw file was compressed, the compression of the second failed
\* after a single run, and the third is still there, uncompressed.
C33_Witness ==
    /\ entry = "download_run"
    /\ pc = "done"
    /\ s_result = CommandFailed(PIGZ, 1)
    /\ s_invoked = <<PREFETCH, FASTERQ_DUMP, PIGZ, PIGZ>>
    /\ s_sleeps = 0
    /\ produced = <<raw_candidates(s_accession)[1] \o ".gz">>
    /\ produced[1] \in DOMAIN fs
    /\ raw_candidates(s_accession)[3] \in DOMAIN fs
    /\ (raw_candidates(s_accession)[3] \o ".gz") \notin DOMAIN fs

\* The place of a tool in the pipeline.
Stage(tool) == CASE tool = PREFETCH -> 1 [] tool = FASTERQ_DUMP -> 2 [] tool = PIGZ -> 3

\* C34: the tools of a call of download_run start in the order fetch,
\* extract, compress; the extraction tool has started only after a run of the
\* fetch tool succeeded, the compression tool only after a run of the
\* extraction tool succeeded; and once the call has returned Ok or
\* LayoutMismatch after compressing, the file <accession>.sra is not there.
C34_StagesInOrder ==
    entry = "download_run" =>
        /\ \A i \in 1..Len(s_invoked), j \in 1..Len(s_invoked) :
             i < j => Stage(s_invoked[i]) <= Stage(s_invoked[j])
        /\ FASTERQ_DUMP \in Range(s_invoked) => PREFETCH \in Range(s_ok)
        /\ PIGZ \in Range(s_invoked) => FASTERQ_DUMP \in Range(s_ok)
        /\ ( /\ pc = "done"
             /\ PIGZ \in Range(s_ok)
             /\ s_result.tag = "Ok" \/ s_result = LayoutMismatch )
           => sra_path(s_accession) \notin DOMAIN fs
        /\ s_result = LayoutMismatch => PIGZ \in Range(s_ok)

\* The fetch tool wrote the container, all three stages succeeded, and the
\* call returned LayoutMismatch with the container removed.
C34_Witness ==
    /\ entry = "download_run"
    /\ pc = "done"
    /\ s_calls = 1
    /\ s_result = LayoutMismatch
    /\ s_ok = <<PREFETCH, FASTERQ_DUMP, PIGZ>>
    /\ s_invoked = <<PREFETCH, PREFETCH, FASTERQ_DUMP, PIGZ>>
    /\ sra_path(s_accession) \notin DOMAIN fs

C36_SkippedFileWasVerified ==
    [][ ( /\ entry = "download"
          /\ pc = "download"
          /\ d_calls = 1
          /\ d_fs0 = NoFiles
          /\ ~d_forced
          /\ ~force
          /\ d_result' = "None" )
        => d_verified ]_vars

\* How often a tool was started in this call of download_run.
Started(tool) == Cardinality({ i \in 1..Len(s_invoked) : s_invoked[i] = tool })

\* C37: in a call of process_run whose requests, processes and sleeps all
\* return, each retry loop makes a number of attempts that max_attempts alone
\* bounds (max_attempts + 1 requests of get_run_info, max_attempts + 1
\* transfers of a call of download, max_attempts runs of the fetch tool and
\* of the extraction tool), and the call comes to its end: it returns or the
\* process exits.
C37_RetryLoopsTerminate ==
    /\ [](/\ m_requests <= max_attempts + 1
          /\ m_sleeps <= max_attempts + 1
          /\ d_transfers <= max_attempts + 1
          /\ d_sleeps <= max_attempts + 1
          /\ Started(PREFETCH) <= max_attempts
          /\ Started(FASTERQ_DUMP) <= max_attempts
          /\ Started(PIGZ) <= 3
          /\ s_sleeps <= 2 * max_attempts)
    /\ <>(pc \in {"done", "exit"})

\* A call that came to its end after get_run_info and download both had to
\* try again.
C37_Witness ==
    /\ entry = "process_run"
    /\ pc = "done"
    /\ max_attempts > 0
    /\ m_requests = max_attempts + 1
    /\ m_sleeps > 0
    /\ d_transfers = max_attempts + 1
    /\ d_sleeps = max_attempts + 1

\* C38: the paths a call of download_run returns with Ok are canonical
\* compressed files of the accession that exist, one path when the layout is
\* single and two when it is paired.
C38_ReturnedPathsMatchLayout ==
    ( /\ entry = "download_run"
      /\ pc = "done"
      /\ s_result.tag = "Ok" )
    => /\ Range(s_result.paths) \subseteq Range(gz_candidates(s_accession))
       /\ Range(s_result.paths) \subseteq DOMAIN fs
       /\ layout = "single" => Len(s_result.paths) = 1
       /\ layout = "paired" => Len(s_result.paths) = 2

\* C39: download_run returns NotFound for the fetch tool only, and a run of
\* the extraction or compression tool that ends with code 3 is a failed
\* attempt like any other: the call sleeps and tries again, or returns
\* CommandFailed.
C39_NotFoundOnlyFromFetch ==
    entry = "download_run" =>
        /\ s_result.kind = "NotFound" => s_result.tool = PREFETCH
        /\ ( /\ s_status = "3"
             /\ s_tool \in {FASTERQ_DUMP, PIGZ}
             /\ pc # "run_with_retry_sleep" )
           => s_result.kind = "CommandFailed"

====
